---- MODULE Spec2Model ----
(***************************************************************************)
(* The multi-client primary-lease coordinator of IndexedDbPersistence      *)
(* (packages/firestore/src/local/indexeddb_persistence.ts).                *)
(*                                                                         *)
(* Several clients (browser tabs) share one IndexedDb database (the        *)
(* primaryClient and clientMetadata stores) and one LocalStorage (the      *)
(* zombie markers).  Every client keeps the fields of the class            *)
(* IndexedDbPersistence, an AsyncQueue of pending tasks and a refresh      *)
(* timer.  IndexedDb transactions are serializable: a transaction is one   *)
(* atomic step, except the caller's runTransaction, whose body may take    *)
(* time and which therefore holds the store from its begin to its commit   *)
(* or abort.                                                               *)
(*                                                                         *)
(* Time.  All clients read one wall clock.  The code only ever compares a  *)
(* stored time with Date.now(), so times are kept relative to the present: *)
(* `now` is a fixed number and a Tick of the clock moves every stored time *)
(* back by TickMs.  A stored time that is more than                        *)
(* CLIENT_METADATA_MAX_AGE_MS old stays as it is: it is out of age         *)
(* for every later comparison too.  Behaviours are therefore unbounded in  *)
(* time.  A stored time gets older than the 30 minutes of                  *)
(* CLIENT_STATE_GARBAGE_COLLECTION_THRESHOLD_MS in a pause, a step of the  *)
(* clock in which the machine sleeps and every stored time goes out of     *)
(* that threshold.                                                         *)
(* The AsyncQueue runs its tasks without delay: no time passes while a     *)
(* task can run.  A timer may elapse late and a transactionOperation may   *)
(* take long, except in the behaviours that start with punctual = TRUE:    *)
(* there no time passes while a timer is due or a transaction is open, and *)
(* sinceInput and sinceLoss measure the time.                              *)
(***************************************************************************)
EXTENDS Integers, Sequences, FiniteSets, TLC

\* ------------------------------------------------------------ constants

CLIENT_METADATA_MAX_AGE_MS == 5000

CLIENT_STATE_GARBAGE_COLLECTION_THRESHOLD_MS == 30 * 60 * 1000

CLIENT_METADATA_REFRESH_INTERVAL_MS == 4000

\* ------------------------------------------------------------------ time

\* The clock advances in steps of TickMs: TicksPerRefresh steps make one
\* refresh interval, TicksPerRefreshPunctual steps in the behaviours of
\* SpecPunctual.
TicksPerRefresh == 1

TicksPerRefreshPunctual == 4

\* Date.now(): the present, in the frame that moves with the clock.
now == CLIENT_METADATA_MAX_AGE_MS + CLIENT_METADATA_REFRESH_INTERVAL_MS

\* Number.NEGATIVE_INFINITY, the initial lastGarbageCollectionTime: older than
\* every threshold.
NEGATIVE_INFINITY ==
  now - CLIENT_STATE_GARBAGE_COLLECTION_THRESHOLD_MS - CLIENT_METADATA_REFRESH_INTERVAL_MS

\* No timer is pending.
NoTimer == 0 - 1

\* No call of removeDocumentChangesThroughChangeId.
NoChangeId == 0 - 1

\* ---------------------------------------------------------------- bounds

\* The AsyncQueue of a client accepts a task from a timer or an event while it
\* holds fewer than MaxQueue tasks.
MaxQueue == 1

\* The ids of the document changes a client processes are 1..MaxChangeId.
MaxChangeId == 1

\* The first MaxCalls calls of the listener of a client are recorded.
MaxCalls == 3

\* At most MaxEvents events and calls come from outside: visibility and network
\* changes, unloads, crashes, calls of setPrimaryStateListener, runTransaction
\* and shutdown, and every start() that comes after an event or after time has
\* passed.  Timers, tasks and clock ticks are not limited.
MaxEvents == 1

\* The same for the behaviours of SpecPunctual and of SpecLoss.
MaxEventsPunctual == 1

MaxEventsLoss == 1

\* The ends of a client (shutdown, unload, crash) that come on top of these in
\* the behaviours of SpecLoss.
MaxLosses == 1

\* sinceInput and sinceLoss stop counting at MaxElapsed.
MaxElapsed == 3 * CLIENT_METADATA_REFRESH_INTERVAL_MS

AllClients == {"A", "B", "C"}

\* The clients that take part in a behaviour of Spec.
Clients == {"A", "B"}

\* null: no record under a key of a store.
None == [null |-> TRUE]

\* ----------------------------------------------------------------- state

VARIABLES
  \* IndexedDb and LocalStorage, shared by all clients
  primaryClient,      \* the DbPrimaryClient record, or None
  clientMetadata,     \* clientId -> DbClientMetadata record, or None
  zombied,            \* clientId -> whether its LocalStorage zombie entry exists
  \* the fields of IndexedDbPersistence, per client
  started,            \* _started
  isPrimary,
  networkEnabled,
  inForeground,
  persistenceError,   \* whether persistenceError is set
  simpleDb,           \* "unset" | "open" | "closed"
  handlers,           \* whether documentVisibilityHandler and windowUnloadHandler are attached
  refresher,          \* due time of clientMetadataRefresher, or NoTimer
  lastGarbageCollectionTime,
  allowTabSynchronization,
  listener,           \* whether primaryStateListener is a registered listener
  queue,              \* the AsyncQueue: a sequence of tasks
  txn,                \* "idle" | "primaryBody" | "plainBody": the caller's runTransaction
  shutdownStep,       \* "none" | "direct" | "queued": a shutdown() awaiting its transaction
  \* the environment
  isAvailable,        \* IndexedDbPersistence.isAvailable(): the browser of the clients has IndexedDb
  docVisible,         \* document.visibilityState === 'visible'
  proc,               \* "absent" | "new" | "run" | "crashed": the process of the client
  events,             \* the number of events and calls that may still come from outside
  losses,             \* the number of further ends of a client that may still come
  initial,            \* no event has come yet and the last start is recent
  \* the clock of the behaviours with punctual timers
  punctual,           \* whether timers elapse on time and transactions take no time
  ticksPerRefresh,    \* the number of steps of the clock in one refresh interval
  sinceInput,         \* the time since the last start, event, shutdown or crash
  sinceLoss,          \* the time since a primary client crashed or was zombied, or NoTimer
  \* what the listener and the callers observed
  lastProcessedDocumentChangeId, \* remoteDocumentCache.lastProcessedDocumentChangeId of each client
  removedThroughChangeId, \* the argument of the last removeDocumentChangesThroughChangeId, or NoChangeId
  notified,           \* the last value delivered to the listener, or "none"
  calls,              \* the values the listener of each client was called with, in order
  result              \* the last start() or runTransaction() of the client and how it settled

storeVars == <<primaryClient, clientMetadata, zombied>>

localVars == <<started, isPrimary, networkEnabled, inForeground, persistenceError,
               simpleDb, handlers, refresher, lastGarbageCollectionTime,
               allowTabSynchronization, listener, queue, txn, shutdownStep>>

envVars == <<docVisible, proc, events, losses, initial>>

\* What is fixed for a behaviour, and its clock.
clockVars == <<punctual, ticksPerRefresh, isAvailable, sinceInput, sinceLoss>>

\* The step of the clock.
TickMs == CLIENT_METADATA_REFRESH_INTERVAL_MS \div ticksPerRefresh

\* The cursors into the document change log and its truncation.
logVars == <<lastProcessedDocumentChangeId, removedThroughChangeId>>

vars == <<storeVars, localVars, envVars, clockVars, logVars, notified, calls, result>>

\* --------------------------------------------------------------- records

DbPrimaryClient(ownerId, allowTabSync, leaseTimestampMs) ==
  [ownerId |-> ownerId, allowTabSynchronization |-> allowTabSync,
   leaseTimestampMs |-> leaseTimestampMs]

DbClientMetadata(clientId, updateTimeMs, network, foreground, changeId) ==
  [clientId |-> clientId, updateTimeMs |-> updateTimeMs,
   networkEnabled |-> network, inForeground |-> foreground,
   lastProcessedDocumentChangeId |-> changeId]

\* ------------------------------------------------------ helpers of the class

\* isWithinAge without the test of the age (lines 784-786 left out): only a time
\* in the future is rejected.
isWithinAgeUnbounded(updateTimeMs, maxAgeMs) ==
  IF updateTimeMs > now THEN FALSE ELSE TRUE

\* isWithinAge: false for a time older than maxAgeMs and for a time in the future.
isWithinAge(updateTimeMs, maxAgeMs) ==
  IF updateTimeMs < now - maxAgeMs THEN FALSE
  ELSE IF updateTimeMs > now THEN FALSE
  ELSE TRUE

\* isClientZombied that never finds the LocalStorage entry (a wrong key).
isClientZombiedNever(clientId) == FALSE

\* isClientZombied: the LocalStorage entry of clientId exists.
isClientZombied(clientId) == zombied[clientId]

\* isLocalClient: client is the DbPrimaryClient record read, or None (null).
isLocalClient(c, client) ==
  IF client # None THEN client.ownerId = c ELSE FALSE

\* currentLeaseIsValid of canActAsPrimary and verifyAllowTabSynchronization.
currentLeaseIsValid(currentPrimary) ==
  /\ currentPrimary # None
  /\ isWithinAge(currentPrimary.leaseTimestampMs, CLIENT_METADATA_MAX_AGE_MS)
  /\ ~isClientZombied(currentPrimary.ownerId)

\* filterActiveClients without the test of the age of the metadata: every record
\* that is not zombied is active.
filterActiveClientsAll(clients, activityThresholdMs) ==
  {o \in AllClients : clients[o] # None /\ ~isClientZombied(o)}

\* filterActiveClients: the ids of the records of `clients` (the metadata store)
\* that are within the threshold and not zombied.
filterActiveClients(clients, activityThresholdMs) ==
  {o \in AllClients :
     /\ clients[o] # None
     /\ isWithinAge(clients[o].updateTimeMs, activityThresholdMs)
     /\ ~isClientZombied(o)}

\* The callback of find() that also prefers a client in the same state (the
\* tests of lines 512-515 weakened): a tie goes against the local client.
isPreferredCandidateOnTie(c, fg, otherClient) ==
  IF c # otherClient.clientId
  THEN \/ networkEnabled[c] = otherClient.networkEnabled
       \/ ~networkEnabled[c] /\ otherClient.networkEnabled
  ELSE FALSE

\* The callback of find() in canActAsPrimary: otherClient is better suited.
isPreferredCandidate(c, fg, otherClient) ==
  IF c # otherClient.clientId
  THEN LET otherClientHasBetterNetworkState ==
             ~networkEnabled[c] /\ otherClient.networkEnabled
           otherClientHasBetterVisibility == ~fg /\ otherClient.inForeground
           otherClientHasSameNetworkState ==
             networkEnabled[c] = otherClient.networkEnabled
       IN  \/ otherClientHasBetterNetworkState
           \/ (otherClientHasBetterVisibility /\ otherClientHasSameNetworkState)
  ELSE FALSE

\* canActAsPrimary without the answer for a valid lease of another client
\* (lines 474-495 left out): such a lease is treated like an invalid one.
canActAsPrimarySkipsRemote(c, fg, currentPrimary, clients) ==
  LET valid == currentLeaseIsValid(currentPrimary)
      local == isLocalClient(c, currentPrimary)
  IN  IF valid /\ local /\ networkEnabled[c] THEN "true"
      ELSE IF networkEnabled[c] /\ fg THEN "true"
      ELSE IF \E o \in filterActiveClients(clients, CLIENT_METADATA_MAX_AGE_MS) :
                isPreferredCandidate(c, fg, clients[o])
        THEN "false"
      ELSE "true"

\* canActAsPrimary without the test of the holder's allowTabSynchronization
\* (lines 475-491 left out): a valid lease of another client gives false.
canActAsPrimaryIgnoresExclusive(c, fg, currentPrimary, clients) ==
  LET valid == currentLeaseIsValid(currentPrimary)
      local == isLocalClient(c, currentPrimary)
  IN  IF valid /\ local /\ networkEnabled[c] THEN "true"
      ELSE IF valid /\ ~local THEN "false"
      ELSE IF networkEnabled[c] /\ fg THEN "true"
      ELSE IF \E o \in filterActiveClients(clients, CLIENT_METADATA_MAX_AGE_MS) :
                isPreferredCandidate(c, fg, clients[o])
        THEN "false"
      ELSE "true"

\* canActAsPrimary without the answer for a valid lease of the local client
\* (lines 470-472 left out): the holder of the lease is a candidate like any other.
canActAsPrimaryNotSticky(c, fg, currentPrimary, clients) ==
  LET valid == currentLeaseIsValid(currentPrimary)
      local == isLocalClient(c, currentPrimary)
  IN  IF valid /\ ~local
        THEN (IF ~currentPrimary.allowTabSynchronization THEN "exclusive" ELSE "false")
      ELSE IF networkEnabled[c] /\ fg THEN "true"
      ELSE IF \E o \in filterActiveClients(clients, CLIENT_METADATA_MAX_AGE_MS) :
                isPreferredCandidate(c, fg, clients[o])
        THEN "false"
      ELSE "true"

\* canActAsPrimary that answers this.networkEnabled for a valid lease of the
\* local client (line 470 without the fall through to line 498).
canActAsPrimaryLocalByNetwork(c, fg, currentPrimary, clients) ==
  LET valid == currentLeaseIsValid(currentPrimary)
      local == isLocalClient(c, currentPrimary)
  IN  IF valid /\ local THEN (IF networkEnabled[c] THEN "true" ELSE "false")
      ELSE IF valid /\ ~local
        THEN (IF ~currentPrimary.allowTabSynchronization THEN "exclusive" ELSE "false")
      ELSE IF networkEnabled[c] /\ fg THEN "true"
      ELSE IF \E o \in filterActiveClients(clients, CLIENT_METADATA_MAX_AGE_MS) :
                isPreferredCandidate(c, fg, clients[o])
        THEN "false"
      ELSE "true"

\* canActAsPrimary that returns false under a valid lease of the local client
\* (line 470 changed).
canActAsPrimaryUnlessHeld(c, fg, currentPrimary, clients) ==
  LET valid == currentLeaseIsValid(currentPrimary)
      local == isLocalClient(c, currentPrimary)
  IN  IF valid /\ local THEN "false"
      ELSE IF valid /\ ~local
        THEN (IF ~currentPrimary.allowTabSynchronization THEN "exclusive" ELSE "false")
      ELSE IF networkEnabled[c] /\ fg THEN "true"
      ELSE IF \E o \in filterActiveClients(clients, CLIENT_METADATA_MAX_AGE_MS) :
                isPreferredCandidate(c, fg, clients[o])
        THEN "false"
      ELSE "true"

\* canActAsPrimary in a transaction that reads `currentPrimary` and the metadata
\* store `clients`; fg is this.inForeground.  "true", "false", or "exclusive"
\* when it throws PRIMARY_LEASE_EXCLUSIVE.
canActAsPrimary(c, fg, currentPrimary, clients) ==
  LET valid == currentLeaseIsValid(currentPrimary)
      local == isLocalClient(c, currentPrimary)
  IN  IF valid /\ local /\ networkEnabled[c] THEN "true"
      ELSE IF valid /\ ~local
        THEN (IF ~currentPrimary.allowTabSynchronization THEN "exclusive" ELSE "false")
      ELSE IF networkEnabled[c] /\ fg THEN "true"
      ELSE IF \E o \in filterActiveClients(clients, CLIENT_METADATA_MAX_AGE_MS) :
                isPreferredCandidate(c, fg, clients[o])
        THEN "false"
      ELSE "true"

\* verifyAllowTabSynchronization without currentLeaseIsValid: it throws for the
\* record of a holder that does not allow tab synchronization, valid or not.
verifyAllowTabSynchronizationAnyLease(c, currentPrimary) ==
  ~(/\ currentPrimary # None
    /\ ~isLocalClient(c, currentPrimary)
    /\ ~currentPrimary.allowTabSynchronization)

\* verifyAllowTabSynchronization: TRUE when it passes, FALSE when it throws.
verifyAllowTabSynchronization(c, currentPrimary) ==
  ~(/\ currentLeaseIsValid(currentPrimary)
    /\ ~isLocalClient(c, currentPrimary)
    /\ ~currentPrimary.allowTabSynchronization)

\* acquireOrExtendPrimaryLease that puts no record (line 733 left out).
acquireOrExtendPrimaryLeaseNoPut(c) == None

\* acquireOrExtendPrimaryLease: the record it puts.
acquireOrExtendPrimaryLease(c) ==
  DbPrimaryClient(c, allowTabSynchronization[c], now)

\* releasePrimaryLeaseIfHeld that deletes no record (line 768 left out).
releasePrimaryLeaseNever(c, primary) == primary

\* releasePrimaryLeaseIfHeld without the test of the owner (line 767 left out).
releasePrimaryLeaseAlways(c, primary) == None

\* releasePrimaryLeaseIfHeld: the primaryClient store after it.
releasePrimaryLeaseIfHeld(c, primary) ==
  IF isLocalClient(c, primary) THEN None ELSE primary

\* removeClientMetadata that deletes nothing (the delete of line 338 left out).
removeClientMetadataKeeps(c, clients) == clients

\* removeClientMetadata: the metadata store after it.
removeClientMetadata(c, clients) == [clients EXCEPT ![c] = None]

\* ------------------------------------------------- the transactions' effects

\* updateClientMetadataAndTryBecomePrimary that enqueues the call of the
\* listener whether isPrimary changed or not (the test of line 315 left out).
updateClientMetadataAndTryBecomePrimaryAlwaysNotifies(c, fg) ==
  LET clients == [clientMetadata EXCEPT
                    ![c] = DbClientMetadata(c, now, networkEnabled[c], fg,
                                           lastProcessedDocumentChangeId[c])]
      can == canActAsPrimary(c, fg, primaryClient, clients)
      wasPrimary == isPrimary[c]
      nowPrimary == (can = "true")
  IN  IF can = "exclusive"
      THEN [ok |-> FALSE, isPrimary |-> wasPrimary, notify |-> FALSE,
            primary |-> primaryClient, clients |-> clientMetadata]
      ELSE [ok |-> TRUE, isPrimary |-> nowPrimary,
            notify |-> TRUE,
            primary |-> IF wasPrimary /\ ~nowPrimary
                          THEN releasePrimaryLeaseIfHeld(c, primaryClient)
                        ELSE IF nowPrimary THEN acquireOrExtendPrimaryLease(c)
                        ELSE primaryClient,
            clients |-> clients]

\* updateClientMetadataAndTryBecomePrimary, run by client c with this.inForeground
\* = fg: what its read-write transaction leaves.  ok is FALSE when canActAsPrimary
\* threw and the transaction aborted (the put of the metadata included).
updateClientMetadataAndTryBecomePrimary(c, fg) ==
  LET clients == [clientMetadata EXCEPT
                    ![c] = DbClientMetadata(c, now, networkEnabled[c], fg,
                                           lastProcessedDocumentChangeId[c])]
      can == canActAsPrimary(c, fg, primaryClient, clients)
      wasPrimary == isPrimary[c]
      nowPrimary == (can = "true")
  IN  IF can = "exclusive"
      THEN [ok |-> FALSE, isPrimary |-> wasPrimary, notify |-> FALSE,
            primary |-> primaryClient, clients |-> clientMetadata]
      ELSE [ok |-> TRUE, isPrimary |-> nowPrimary,
            notify |-> (wasPrimary # nowPrimary),
            primary |-> IF wasPrimary /\ ~nowPrimary
                          THEN releasePrimaryLeaseIfHeld(c, primaryClient)
                        ELSE IF nowPrimary THEN acquireOrExtendPrimaryLease(c)
                        ELSE primaryClient,
            clients |-> clients]

\* The changed garbage collection of C15: no client counts as inactive.
inactiveClientsNone(existingClients, activeClients) == {}

\* The clients of existingClients that the garbage collection of line 372 takes
\* as inactive: those that are not in activeClients.
inactiveClients(existingClients, activeClients) == existingClients \ activeClients

\* The changed garbage collection of C14: the cursor of the local client alone
\* decides the truncation.
changeLogReadersLocal(c, activeClients) == activeClients \cap {c}

\* The clients whose cursors decide the truncation of the document change log
\* (lines 388-390): the active clients other than the local client c.
changeLogReaders(c, activeClients) == activeClients \ {c}

\* The test of maybeGarbageCollectMultiClientState without the age of the last
\* garbage collection (lines 349-352 left out).
garbageCollectionWheneverPrimary(c, isP) == isP

\* The test of maybeGarbageCollectMultiClientState (lines 347-353), made by c
\* with this.isPrimary = isP: the client is primary and its last garbage
\* collection is older than the threshold.
garbageCollectionThresholdPassed(c, isP) ==
  isP /\ ~isWithinAge(lastGarbageCollectionTime[c],
                      CLIENT_STATE_GARBAGE_COLLECTION_THRESHOLD_MS)

\* The changed garbage collection of C23: the transaction deletes no metadata
\* and the zombie entries of the inactive clients are removed all the same.
maybeGarbageCollectMultiClientStateKeepsMetadata(c, fg, isP, primary, clients) ==
  LET can == canActAsPrimary(c, fg, primary, clients)
      existing == {o \in AllClients : clients[o] # None}
      active == filterActiveClients(clients, CLIENT_STATE_GARBAGE_COLLECTION_THRESHOLD_MS)
  IN  [ok |-> (can = "true"), isPrimary |-> isP, notifyFalse |-> FALSE,
       primary |-> primary, clients |-> clients,
       inactive |-> inactiveClients(existing, active), through |-> NoChangeId]

\* The runTransaction of maybeGarbageCollectMultiClientState (lines 359-414), run
\* by c on the stores `primary` and `clients` with this.inForeground = fg and
\* this.isPrimary = isP.  ok: the transaction did not reject; inactive: the
\* clients whose metadata it deleted and whose zombie entries are removed after
\* it; through: the change id it passed to
\* removeDocumentChangesThroughChangeId, or NoChangeId without that call.
maybeGarbageCollectMultiClientState(c, fg, isP, primary, clients) ==
  LET can == canActAsPrimary(c, fg, primary, clients)
      existing == {o \in AllClients : clients[o] # None}
      active == filterActiveClients(clients, CLIENT_STATE_GARBAGE_COLLECTION_THRESHOLD_MS)
      inactive == inactiveClients(existing, active)
      readers == changeLogReaders(c, active)
      processedChangeIds == {clients[o].lastProcessedDocumentChangeId : o \in readers}
      oldestChangeId == CHOOSE i \in processedChangeIds :
                          \A j \in processedChangeIds : i <= j
  IN  IF can = "true"
      THEN [ok |-> TRUE, isPrimary |-> isP, notifyFalse |-> FALSE,
            primary |-> acquireOrExtendPrimaryLease(c),
            clients |-> [o \in AllClients |->
                           IF o \in inactive THEN None ELSE clients[o]],
            inactive |-> inactive,
            through |-> IF readers # {} THEN oldestChangeId ELSE NoChangeId]
      ELSE [ok |-> FALSE,
            isPrimary |-> IF can = "false" THEN FALSE ELSE isP,
            notifyFalse |-> (can = "false"),
            primary |-> primary, clients |-> clients, inactive |-> {},
            through |-> NoChangeId]

\* The operation of clientMetadataRefresher of c runs its garbage collection.
GarbageCollecting(c) == queue[c] # <<>> /\ Head(queue[c]) = "gc"

\* The tasks of the queue q that wait: all but the operation of
\* clientMetadataRefresher that runs its garbage collection.
Waiting(q) == IF q # <<>> /\ Head(q) = "gc" THEN Tail(q) ELSE q

\* The queue q with task t enqueued.
enqueueAndForget(q, t) == Append(q, t)

\* The calls s of a listener after a call with value v; calls after the first
\* MaxCalls are not recorded.
Called(s, v) == IF Len(s) < MaxCalls THEN Append(s, v) ELSE s

\* The listener of c receives value ("true" or "false").
Deliver(c, value) ==
  /\ notified' = [notified EXCEPT ![c] = IF listener[c] THEN value ELSE @]
  /\ calls' = [calls EXCEPT ![c] = IF listener[c] THEN Called(@, value) ELSE @]

BoolStr(b) == IF b THEN "true" ELSE "false"

\* The process of client c runs.
Alive(c) == proc[c] = "run"

\* No runTransaction of any client holds the store.
NoBodyOpen == \A c \in AllClients : txn[c] = "idle"

\* The store is free: no runTransaction of any client holds it.  With punctual
\* timers transactions take no time, so none is opened while an update runs:
\* the transaction of the garbage collection, which is opened when the update
\* ends, is the next one on the store.
StoreFree ==
  /\ NoBodyOpen
  /\ ~(punctual /\ \E d \in AllClients : Alive(d) /\ GarbageCollecting(d))

\* The call `call` of the API settled with `outcome`: "resolved", "rejected" (with
\* the error of transactionOperation), the code or message of the FirestoreError
\* it rejected with, or "pending".
Settled(call, outcome) == [call |-> call, outcome |-> outcome]

\* The name of the call runTransaction(_, requirePrimaryLease, _).
RunTransactionCall(requirePrimaryLease) ==
  IF requirePrimaryLease THEN "runTransaction(primary)" ELSE "runTransaction"

\* One more event or call comes from outside.
Event == events > 0 /\ events' = events - 1 /\ losses' = losses /\ initial' = FALSE

\* The end of a client (shutdown, unload or crash) comes from outside.
Loss ==
  /\ IF losses > 0 THEN losses' = losses - 1 /\ events' = events
     ELSE events > 0 /\ events' = events - 1 /\ losses' = losses
  /\ initial' = FALSE

\* An input from the environment arrives; lost: it is the crash or the zombie
\* entry of a client that is primary.
Input(lost) ==
  /\ sinceInput' = 0
  /\ sinceLoss' = IF lost /\ punctual THEN 0 ELSE sinceLoss
  /\ UNCHANGED <<punctual, ticksPerRefresh, isAvailable>>

\* ------------------------------------------------------------------- Init

\* The state after the construction of the clients of S, of which those of
\* optOut may have tab synchronization turned off; the other clients of
\* AllClients are absent.  timely: the timers are punctual; ticks: the steps of
\* the clock in a refresh interval; spare: the number of ends of a client that
\* come on top of the budget; budget: the number of events and calls from
\* outside; early: the sets of clients of which one has called
\* setPrimaryStateListener, which calls the listener with isPrimary = false,
\* before start().
InitOf(S, optOut, timely, ticks, budget, spare, early) ==
  /\ primaryClient = None
  /\ clientMetadata = [c \in AllClients |-> None]
  /\ zombied = [c \in AllClients |-> FALSE]
  /\ started = [c \in AllClients |-> FALSE]
  /\ isPrimary = [c \in AllClients |-> FALSE]
  /\ networkEnabled = [c \in AllClients |-> TRUE]
  /\ inForeground = [c \in AllClients |-> FALSE]
  /\ persistenceError = [c \in AllClients |-> FALSE]
  /\ simpleDb = [c \in AllClients |-> "unset"]
  /\ handlers = [c \in AllClients |-> FALSE]
  /\ refresher = [c \in AllClients |-> NoTimer]
  /\ lastGarbageCollectionTime = [c \in AllClients |-> NEGATIVE_INFINITY]
  /\ allowTabSynchronization \in
       {f \in [AllClients -> BOOLEAN] : \A c \in AllClients \ optOut : f[c]}
  /\ \E E \in early :
       /\ listener = [c \in AllClients |-> c \in E]
       /\ notified = [c \in AllClients |-> IF c \in E THEN "false" ELSE "none"]
       /\ calls = [c \in AllClients |-> IF c \in E THEN <<"false">> ELSE <<>>]
  /\ queue = [c \in AllClients |-> <<>>]
  /\ txn = [c \in AllClients |-> "idle"]
  /\ shutdownStep = [c \in AllClients |-> "none"]
  /\ docVisible = [c \in AllClients |-> FALSE]
  /\ proc = [c \in AllClients |-> IF c \in S THEN "new" ELSE "absent"]
  /\ lastProcessedDocumentChangeId = [c \in AllClients |-> 0]
  /\ removedThroughChangeId = NoChangeId
  /\ events = budget
  /\ losses = spare
  /\ initial = TRUE
  /\ punctual = timely
  /\ isAvailable \in BOOLEAN
  /\ ticksPerRefresh = ticks
  /\ sinceInput = 0
  /\ sinceLoss = NoTimer
  /\ result = [c \in AllClients |-> Settled("none", "none")]

Init == InitOf(Clients, Clients, FALSE, TicksPerRefresh, MaxEvents, 0, {{}})

\* ---------------------------------------------------------------- actions

\* start() in a document that is visible or not.  available:
\* IndexedDbPersistence.isAvailable(), which tells whether the browser has
\* IndexedDb: the clients, tabs of one browser, find the same.
\* The clients are alike: they start in the order of their names.
Rank(c) == CASE c = "A" -> 1 [] c = "B" -> 2 [] c = "C" -> 3

Start(c, available, visible) ==
  /\ proc[c] = "new"
  /\ \A d \in AllClients : Rank(d) < Rank(c) => proc[d] # "new"
  /\ IF initial THEN UNCHANGED <<events, losses, initial>> ELSE Event
  /\ proc' = [proc EXCEPT ![c] = "run"]
  /\ docVisible' = [docVisible EXCEPT ![c] = visible]
  /\ IF ~available
     THEN /\ persistenceError' = [persistenceError EXCEPT ![c] = TRUE]
          /\ UNCHANGED <<storeVars, started, isPrimary, networkEnabled, inForeground,
                         simpleDb, handlers, refresher, lastGarbageCollectionTime,
                         allowTabSynchronization, listener, queue, txn, shutdownStep>>
     ELSE LET r == updateClientMetadataAndTryBecomePrimary(c, visible)
          IN  /\ StoreFree
              /\ simpleDb' = [simpleDb EXCEPT ![c] = "open"]
              /\ handlers' = [handlers EXCEPT ![c] = TRUE]
              /\ inForeground' = [inForeground EXCEPT ![c] = visible]
              /\ primaryClient' = r.primary
              /\ clientMetadata' = r.clients
              /\ isPrimary' = [isPrimary EXCEPT ![c] = r.isPrimary]
              /\ queue' = [queue EXCEPT ![c] =
                             IF r.notify THEN enqueueAndForget(@, "notify") ELSE @]
              /\ refresher' = [refresher EXCEPT ![c] =
                    IF r.ok THEN now + CLIENT_METADATA_REFRESH_INTERVAL_MS ELSE @]
              /\ started' = [started EXCEPT ![c] = r.ok]
              /\ UNCHANGED <<zombied, networkEnabled, persistenceError,
                             lastGarbageCollectionTime, allowTabSynchronization,
                             listener, txn, shutdownStep>>
  /\ UNCHANGED <<notified, calls>>
  /\ result' = [result EXCEPT ![c] = Settled("start",
       IF ~available THEN "UNIMPLEMENTED"
       ELSE IF updateClientMetadataAndTryBecomePrimary(c, visible).ok THEN "resolved"
       ELSE "PRIMARY_LEASE_EXCLUSIVE")]
  /\ Input(FALSE)
  /\ UNCHANGED logVars

\* setPrimaryStateListener(): registers the listener and calls it with isPrimary.
SetPrimaryStateListener(c) ==
  /\ Alive(c)
  /\ ~listener[c]
  /\ Event
  /\ listener' = [listener EXCEPT ![c] = TRUE]
  /\ notified' = [notified EXCEPT ![c] = BoolStr(isPrimary[c])]
  /\ calls' = [calls EXCEPT ![c] = Called(@, BoolStr(isPrimary[c]))]
  /\ UNCHANGED <<storeVars, started, isPrimary, networkEnabled, inForeground,
                 persistenceError, simpleDb, handlers, refresher,
                 lastGarbageCollectionTime, allowTabSynchronization, queue, txn,
                 shutdownStep, docVisible, proc>>
  /\ UNCHANGED result
  /\ UNCHANGED clockVars
  /\ UNCHANGED logVars

\* setNetworkEnabled(v): a change is stored at once and a refresh is enqueued.
SetNetworkEnabled(c, v) ==
  /\ Alive(c)
  /\ simpleDb[c] = "open"
  /\ shutdownStep[c] = "none"
  /\ networkEnabled[c] # v
  /\ Len(Waiting(queue[c])) < MaxQueue
  /\ Event
  /\ networkEnabled' = [networkEnabled EXCEPT ![c] = v]
  /\ queue' = [queue EXCEPT ![c] = enqueueAndForget(@, "network")]
  /\ UNCHANGED <<storeVars, started, isPrimary, inForeground, persistenceError,
                 simpleDb, handlers, refresher, lastGarbageCollectionTime,
                 allowTabSynchronization, listener, txn, shutdownStep, docVisible, proc,
                 notified, calls>>
  /\ UNCHANGED result
  /\ Input(FALSE)
  /\ UNCHANGED logVars

\* A 'visibilitychange' event of the document of c while
\* documentVisibilityHandler is attached: the handler enqueues a task.
VisibilityChange(c) ==
  /\ Alive(c)
  /\ handlers[c]
  /\ Len(Waiting(queue[c])) < MaxQueue
  /\ Event
  /\ docVisible' = [docVisible EXCEPT ![c] = ~@]
  /\ queue' = [queue EXCEPT ![c] = enqueueAndForget(@, "visibility")]
  /\ UNCHANGED <<storeVars, started, isPrimary, networkEnabled, inForeground,
                 persistenceError, simpleDb, handlers, refresher,
                 lastGarbageCollectionTime, allowTabSynchronization, listener, txn,
                 shutdownStep, proc, notified, calls>>
  /\ UNCHANGED result
  /\ Input(FALSE)
  /\ UNCHANGED logVars

\* The remote document cache of c processes the next change of the document
\* change log: its cursor, which the next update of the metadata of c writes to
\* the store, advances.  The cursor never decreases.
ProcessChanges(c) ==
  /\ Alive(c)
  /\ started[c]
  /\ txn[c] = "idle"
  /\ lastProcessedDocumentChangeId[c] < MaxChangeId
  /\ Event
  /\ lastProcessedDocumentChangeId' =
       [lastProcessedDocumentChangeId EXCEPT ![c] = @ + 1]
  /\ UNCHANGED removedThroughChangeId
  /\ UNCHANGED <<storeVars, localVars, docVisible, proc, notified, calls>>
  /\ UNCHANGED result
  /\ UNCHANGED clockVars

\* An 'unload' event of the window of c while windowUnloadHandler is attached:
\* the handler marks the client zombied, synchronously, and enqueues shutdown().
Unload(c) ==
  /\ Alive(c)
  /\ handlers[c]
  /\ Len(Waiting(queue[c])) < MaxQueue
  /\ Loss
  /\ zombied' = [zombied EXCEPT ![c] = TRUE]
  /\ queue' = [queue EXCEPT ![c] = enqueueAndForget(@, "shutdown")]
  /\ UNCHANGED <<primaryClient, clientMetadata, started, isPrimary,
                 networkEnabled, inForeground, persistenceError, simpleDb, handlers,
                 refresher, lastGarbageCollectionTime, allowTabSynchronization,
                 listener, txn, shutdownStep, docVisible, proc, notified, calls>>
  /\ UNCHANGED result
  /\ Input(isPrimary[c])
  /\ UNCHANGED logVars

\* The timer of clientMetadataRefresher of c has elapsed.
TimerDue(c) == Alive(c) /\ refresher[c] # NoTimer /\ now >= refresher[c]

\* The timer of clientMetadataRefresher elapses: its operation goes on the queue.
RefresherFire(c) ==
  /\ TimerDue(c)
  /\ Len(Waiting(queue[c])) < MaxQueue
  /\ refresher' = [refresher EXCEPT ![c] = NoTimer]
  /\ queue' = [queue EXCEPT ![c] = enqueueAndForget(@, "refresh")]
  /\ UNCHANGED <<storeVars, started, isPrimary, networkEnabled, inForeground,
                 persistenceError, simpleDb, handlers, lastGarbageCollectionTime,
                 allowTabSynchronization, listener, txn, shutdownStep, envVars,
                 notified, calls>>
  /\ UNCHANGED result
  /\ UNCHANGED clockVars
  /\ UNCHANGED logVars

\* The process of c ends without running any handler: its fields are gone and
\* its open transaction aborts.  Nothing is written.
Crash(c) ==
  /\ Alive(c)
  /\ Loss
  /\ proc' = [proc EXCEPT ![c] = "crashed"]
  /\ started' = [started EXCEPT ![c] = FALSE]
  /\ isPrimary' = [isPrimary EXCEPT ![c] = FALSE]
  /\ networkEnabled' = [networkEnabled EXCEPT ![c] = TRUE]
  /\ inForeground' = [inForeground EXCEPT ![c] = FALSE]
  /\ persistenceError' = [persistenceError EXCEPT ![c] = FALSE]
  /\ simpleDb' = [simpleDb EXCEPT ![c] = "unset"]
  /\ handlers' = [handlers EXCEPT ![c] = FALSE]
  /\ refresher' = [refresher EXCEPT ![c] = NoTimer]
  /\ lastGarbageCollectionTime' =
       [lastGarbageCollectionTime EXCEPT ![c] = NEGATIVE_INFINITY]
  /\ listener' = [listener EXCEPT ![c] = FALSE]
  /\ queue' = [queue EXCEPT ![c] = <<>>]
  /\ txn' = [txn EXCEPT ![c] = "idle"]
  /\ shutdownStep' = [shutdownStep EXCEPT ![c] = "none"]
  /\ docVisible' = [docVisible EXCEPT ![c] = FALSE]
  /\ notified' = [notified EXCEPT ![c] = "none"]
  /\ calls' = [calls EXCEPT ![c] = <<>>]
  /\ UNCHANGED <<primaryClient, clientMetadata, zombied, allowTabSynchronization>>
  /\ result' = [result EXCEPT ![c] = Settled("none", "none")]
  /\ Input(isPrimary[c])
  /\ lastProcessedDocumentChangeId' = [lastProcessedDocumentChangeId EXCEPT ![c] = 0]
  /\ UNCHANGED removedThroughChangeId

\* A pause in which no timer elapses and no task runs (the machine sleeps):
\* every time stored before it is out of
\* CLIENT_STATE_GARBAGE_COLLECTION_THRESHOLD_MS after it.
PauseMs ==
  CLIENT_STATE_GARBAGE_COLLECTION_THRESHOLD_MS + CLIENT_METADATA_REFRESH_INTERVAL_MS

\* The times that can pass in one step of the clock: punctual timers leave no
\* room for a pause.
Steps == IF punctual THEN {TickMs} ELSE {TickMs, PauseMs}

\* A stored time t after ms more have passed.  A time that is out of
\* CLIENT_METADATA_MAX_AGE_MS stays as it is after a step of TickMs: it is out
\* of age from now on.  After a pause every time is out of the threshold of the
\* garbage collection.
Recede(t, ms) ==
  IF ms = PauseMs THEN NEGATIVE_INFINITY
  ELSE IF t < now - CLIENT_METADATA_MAX_AGE_MS THEN t ELSE t - ms

\* The AsyncQueue of c holds a task that can run now, or a shutdown() of c can
\* run its transaction now.
CanRun(c) ==
  /\ Alive(c)
  /\ \/ shutdownStep[c] # "none" /\ StoreFree
     \/ /\ shutdownStep[c] # "queued"
        /\ queue[c] # <<>>
        /\ \/ StoreFree
           \/ Head(queue[c]) \in {"notify", "notifyFalse", "shutdown"}
           \/ Head(queue[c]) = "network" /\ ~started[c]
           \/ Head(queue[c]) = "visibility" /\ simpleDb[c] # "open"

\* Time passes: every stored time is TickMs older, every timer TickMs nearer.
\* lastGarbageCollectionTime is compared with the 30-minute threshold only and
\* stays within it until a pause.  The AsyncQueue runs a task as soon as it
\* can: no time passes while a task can run.  (A timer may elapse late, a transactionOperation
\* may take long, and a process may end at any point.)
Tick ==
  /\ \A c \in AllClients : ~CanRun(c)
  /\ punctual => StoreFree /\ \A c \in AllClients : ~TimerDue(c)
  /\ \E ms \in Steps :
       /\ primaryClient' = IF primaryClient = None THEN None
                           ELSE [primaryClient EXCEPT
                                   !.leaseTimestampMs = Recede(@, ms)]
       /\ clientMetadata' = [c \in AllClients |->
             IF clientMetadata[c] = None THEN None
             ELSE [clientMetadata[c] EXCEPT !.updateTimeMs = Recede(@, ms)]]
       /\ refresher' = [c \in AllClients |->
             IF refresher[c] = NoTimer THEN NoTimer
             ELSE IF refresher[c] - ms < now THEN now ELSE refresher[c] - ms]
       /\ lastGarbageCollectionTime' = [c \in AllClients |->
             IF ms = PauseMs THEN NEGATIVE_INFINITY
             ELSE lastGarbageCollectionTime[c]]
  /\ UNCHANGED <<zombied, started, isPrimary, networkEnabled, inForeground,
                 persistenceError, simpleDb, handlers,
                 allowTabSynchronization, listener, queue, txn, shutdownStep,
                 docVisible, proc, events, losses, notified, calls>>
  /\ UNCHANGED result
  /\ sinceInput' = IF punctual /\ sinceInput < MaxElapsed
                     THEN sinceInput + TickMs ELSE sinceInput
  /\ sinceLoss' = IF punctual /\ sinceLoss # NoTimer /\ sinceLoss < MaxElapsed
                    THEN sinceLoss + TickMs ELSE sinceLoss
  /\ UNCHANGED <<punctual, ticksPerRefresh, isAvailable>>
  /\ UNCHANGED logVars
  /\ initial' = (/\ initial
                 /\ punctual
                 /\ sinceInput + TickMs < CLIENT_METADATA_REFRESH_INTERVAL_MS)

\* ------------------------------------------------- the tasks of the AsyncQueue

\* The AsyncQueue of c can run its next task, and that task is t.
NextTask(c, t) ==
  /\ Alive(c)
  /\ shutdownStep[c] # "queued"
  /\ queue[c] # <<>>
  /\ Head(queue[c]) = t

\* The stores, isPrimary and the queue of c after c ran
\* updateClientMetadataAndTryBecomePrimary with outcome r on the queue q.
ApplyUpdate(c, r, q) ==
  /\ primaryClient' = r.primary
  /\ clientMetadata' = r.clients
  /\ isPrimary' = [isPrimary EXCEPT ![c] = r.isPrimary]
  /\ queue' = [queue EXCEPT ![c] =
                 IF r.notify THEN enqueueAndForget(q, "notify") ELSE q]

\* The task enqueued by updateClientMetadataAndTryBecomePrimary without the test
\* of this.started (line 319 left out).
TaskNotifyUnchecked(c) ==
  /\ NextTask(c, "notify")
  /\ queue' = [queue EXCEPT ![c] = Tail(@)]
  /\ Deliver(c, BoolStr(isPrimary[c]))
  /\ UNCHANGED <<storeVars, started, isPrimary, networkEnabled, inForeground,
                 persistenceError, simpleDb, handlers, refresher,
                 lastGarbageCollectionTime, allowTabSynchronization, listener, txn,
                 shutdownStep, envVars>>
  /\ UNCHANGED result
  /\ UNCHANGED clockVars
  /\ UNCHANGED logVars

\* The task enqueued by updateClientMetadataAndTryBecomePrimary (lines 316-322).
TaskNotify(c) ==
  /\ NextTask(c, "notify")
  /\ queue' = [queue EXCEPT ![c] = Tail(@)]
  /\ IF started[c] THEN Deliver(c, BoolStr(isPrimary[c])) ELSE UNCHANGED <<notified, calls>>
  /\ UNCHANGED <<storeVars, started, isPrimary, networkEnabled, inForeground,
                 persistenceError, simpleDb, handlers, refresher,
                 lastGarbageCollectionTime, allowTabSynchronization, listener, txn,
                 shutdownStep, envVars>>
  /\ UNCHANGED result
  /\ UNCHANGED clockVars
  /\ UNCHANGED logVars

\* The task enqueued by runTransaction when the lease is lost (lines 667-669).
TaskNotifyFalse(c) ==
  /\ NextTask(c, "notifyFalse")
  /\ queue' = [queue EXCEPT ![c] = Tail(@)]
  /\ Deliver(c, "false")
  /\ UNCHANGED <<storeVars, started, isPrimary, networkEnabled, inForeground,
                 persistenceError, simpleDb, handlers, refresher,
                 lastGarbageCollectionTime, allowTabSynchronization, listener, txn,
                 shutdownStep, envVars>>
  /\ UNCHANGED result
  /\ UNCHANGED clockVars
  /\ UNCHANGED logVars

\* The task enqueued by setNetworkEnabled (lines 283-287).
TaskNetwork(c) ==
  /\ NextTask(c, "network")
  /\ IF started[c]
     THEN /\ StoreFree
          /\ ApplyUpdate(c, updateClientMetadataAndTryBecomePrimary(c, inForeground[c]),
                         Tail(queue[c]))
     ELSE /\ queue' = [queue EXCEPT ![c] = Tail(@)]
          /\ UNCHANGED <<primaryClient, clientMetadata, isPrimary>>
  /\ UNCHANGED <<zombied, started, networkEnabled, inForeground,
                 persistenceError, simpleDb, handlers, refresher,
                 lastGarbageCollectionTime, allowTabSynchronization, listener, txn,
                 shutdownStep, envVars, notified, calls>>
  /\ UNCHANGED result
  /\ UNCHANGED clockVars
  /\ UNCHANGED logVars

\* The task enqueued by documentVisibilityHandler (lines 800-803).  On a closed
\* database the transaction cannot be opened and the task fails.
TaskVisibility(c) ==
  /\ NextTask(c, "visibility")
  /\ inForeground' = [inForeground EXCEPT ![c] = docVisible[c]]
  /\ IF simpleDb[c] = "open"
     THEN /\ StoreFree
          /\ ApplyUpdate(c, updateClientMetadataAndTryBecomePrimary(c, docVisible[c]),
                         Tail(queue[c]))
     ELSE /\ queue' = [queue EXCEPT ![c] = Tail(@)]
          /\ UNCHANGED <<primaryClient, clientMetadata, isPrimary>>
  /\ UNCHANGED <<zombied, started, networkEnabled,
                 persistenceError, simpleDb, handlers, refresher,
                 lastGarbageCollectionTime, allowTabSynchronization, listener, txn,
                 shutdownStep, envVars, notified, calls>>
  /\ UNCHANGED result
  /\ UNCHANGED clockVars
  /\ UNCHANGED logVars

\* The operation of clientMetadataRefresher (lines 426-430) up to the
\* transaction of the garbage collection: the update, then the test of
\* maybeGarbageCollectMultiClientState.  When the threshold has passed,
\* lastGarbageCollectionTime is set and the transaction of the garbage
\* collection is opened: the operation goes on in TaskGarbageCollect.
\* Otherwise the next timer is set.  A rejection of the update (also on a
\* database that is not open) ends the chain before the next timer is set.
TaskRefresh(c) ==
  /\ NextTask(c, "refresh")
  /\ StoreFree
  /\ LET fg == inForeground[c]
         r == updateClientMetadataAndTryBecomePrimary(c, fg)
         due == garbageCollectionThresholdPassed(c, r.isPrimary)
         q1 == IF r.notify THEN enqueueAndForget(Tail(queue[c]), "notify")
               ELSE Tail(queue[c])
     IN  IF simpleDb[c] # "open" \/ ~r.ok
         THEN /\ queue' = [queue EXCEPT ![c] = Tail(@)]
              /\ UNCHANGED <<primaryClient, clientMetadata, isPrimary,
                             refresher, lastGarbageCollectionTime>>
         ELSE /\ primaryClient' = r.primary
              /\ clientMetadata' = r.clients
              /\ isPrimary' = [isPrimary EXCEPT ![c] = r.isPrimary]
              /\ queue' = [queue EXCEPT ![c] =
                      IF due THEN <<"gc">> \o q1 ELSE q1]
              /\ lastGarbageCollectionTime' = [lastGarbageCollectionTime EXCEPT
                      ![c] = IF due THEN now ELSE @]
              /\ refresher' = [refresher EXCEPT ![c] =
                      IF due THEN @ ELSE now + CLIENT_METADATA_REFRESH_INTERVAL_MS]
  /\ UNCHANGED <<zombied, started, networkEnabled, inForeground, persistenceError,
                 simpleDb, handlers, allowTabSynchronization, listener, txn,
                 shutdownStep, envVars, notified, calls>>
  /\ UNCHANGED result
  /\ UNCHANGED clockVars
  /\ UNCHANGED logVars

\* The operation of clientMetadataRefresher from the transaction of the garbage
\* collection on (lines 359-414, 429): the transaction, then the removal of the
\* zombie entries of the clients it deleted, then the next timer.  A rejection
\* of the transaction ends the chain before the entries are removed and the
\* next timer is set.  The transaction was opened when the update ended, on
\* the open database: it runs also after a shutdown() that was called
\* meanwhile has run its transaction and asked to close the database.
TaskGarbageCollect(c) ==
  /\ NextTask(c, "gc")
  /\ NoBodyOpen
  /\ LET g == maybeGarbageCollectMultiClientState(c, inForeground[c], isPrimary[c],
                                                  primaryClient, clientMetadata)
     IN  /\ primaryClient' = g.primary
         /\ removedThroughChangeId' =
                 IF g.through # NoChangeId THEN g.through ELSE removedThroughChangeId
         /\ clientMetadata' = g.clients
         /\ zombied' = [o \in AllClients |->
                          IF o \in g.inactive THEN FALSE ELSE zombied[o]]
         /\ isPrimary' = [isPrimary EXCEPT ![c] = g.isPrimary]
         /\ queue' = [queue EXCEPT ![c] =
                 IF g.notifyFalse THEN enqueueAndForget(Tail(@), "notifyFalse")
                 ELSE Tail(@)]
         /\ refresher' = [refresher EXCEPT ![c] =
                 IF g.ok THEN now + CLIENT_METADATA_REFRESH_INTERVAL_MS ELSE @]
  /\ UNCHANGED <<started, networkEnabled, inForeground, persistenceError,
                 simpleDb, handlers, lastGarbageCollectionTime,
                 allowTabSynchronization, listener, txn,
                 shutdownStep, envVars, notified, calls>>
  /\ UNCHANGED result
  /\ UNCHANGED clockVars
  /\ UNCHANGED lastProcessedDocumentChangeId

\* ---------------------------------------------------------------- shutdown

\* The queue q after clientMetadataRefresher.cancel(): a refresh operation that
\* has not started never starts.
CancelRefresh(q) == SelectSeq(q, LAMBDA t : t # "refresh")

\* shutdown() up to its transaction (lines 547-554) on the queue q: the client is
\* marked not started and zombied, the refresher is cancelled and the handlers are
\* detached.  On a database that is not open the transaction cannot be opened
\* and shutdown() rejects here.
ShutdownBegin(c, q, mode) ==
  /\ started' = [started EXCEPT ![c] = FALSE]
  /\ zombied' = [zombied EXCEPT ![c] = TRUE]
  /\ refresher' = [refresher EXCEPT ![c] = NoTimer]
  /\ queue' = [queue EXCEPT ![c] = CancelRefresh(q)]
  /\ handlers' = [handlers EXCEPT ![c] = FALSE]
  /\ shutdownStep' = [shutdownStep EXCEPT ![c] =
                        IF simpleDb[c] = "open" THEN mode ELSE "none"]
  /\ UNCHANGED <<primaryClient, clientMetadata, isPrimary, networkEnabled,
                 inForeground, persistenceError, simpleDb, lastGarbageCollectionTime,
                 allowTabSynchronization, listener, txn, docVisible, proc, notified, calls>>
  /\ UNCHANGED result

\* shutdown() called by the owner of the instance, after start() has been
\* called: also after a start() that did not open the database and after a
\* shutdown() that closed it.
Shutdown(c) ==
  /\ Alive(c)
  /\ shutdownStep[c] = "none"
  /\ Loss
  /\ ShutdownBegin(c, queue[c], "direct")
  /\ Input(isPrimary[c])
  /\ UNCHANGED logVars

\* The task enqueued by windowUnloadHandler (lines 848-852).
TaskShutdown(c) ==
  /\ NextTask(c, "shutdown")
  /\ shutdownStep[c] = "none"
  /\ ShutdownBegin(c, Tail(queue[c]), "queued")
  /\ UNCHANGED <<events, losses, initial>>
  /\ UNCHANGED clockVars
  /\ UNCHANGED logVars

\* shutdown() whose transaction leaves the metadata of the client in the store
\* (removeClientMetadata, line 562, left out).
ShutdownTxnKeepsMetadata(c) ==
  /\ Alive(c)
  /\ shutdownStep[c] # "none"
  /\ StoreFree
  /\ isPrimary' = [isPrimary EXCEPT ![c] = FALSE]
  /\ primaryClient' = releasePrimaryLeaseIfHeld(c, primaryClient)
  /\ simpleDb' = [simpleDb EXCEPT ![c] = "closed"]
  /\ zombied' = [zombied EXCEPT ![c] = FALSE]
  /\ shutdownStep' = [shutdownStep EXCEPT ![c] = "none"]
  /\ UNCHANGED <<clientMetadata, started, networkEnabled, inForeground,
                 persistenceError, handlers, refresher, lastGarbageCollectionTime,
                 allowTabSynchronization, listener, queue, txn, envVars, notified, calls>>
  /\ UNCHANGED result
  /\ UNCHANGED clockVars
  /\ UNCHANGED logVars

\* shutdown() from its transaction on (lines 555-568): the lease is released if
\* held and the metadata of the client removed in one transaction; then the
\* database is closed and the zombie entry removed.
ShutdownTxn(c) ==
  /\ Alive(c)
  /\ shutdownStep[c] # "none"
  /\ StoreFree
  /\ isPrimary' = [isPrimary EXCEPT ![c] = FALSE]
  /\ primaryClient' = releasePrimaryLeaseIfHeld(c, primaryClient)
  /\ clientMetadata' = removeClientMetadata(c, clientMetadata)
  /\ simpleDb' = [simpleDb EXCEPT ![c] = "closed"]
  /\ zombied' = [zombied EXCEPT ![c] = FALSE]
  /\ shutdownStep' = [shutdownStep EXCEPT ![c] = "none"]
  /\ UNCHANGED <<started, networkEnabled, inForeground, persistenceError,
                 handlers, refresher, lastGarbageCollectionTime,
                 allowTabSynchronization, listener, queue, txn, envVars, notified, calls>>
  /\ UNCHANGED result
  /\ UNCHANGED clockVars
  /\ UNCHANGED logVars

\* ------------------------------------------------------------ runTransaction

\* runTransaction that starts transactionOperation whatever canActAsPrimary
\* returned (the test of lines 662-672 left out).
runTransactionUnchecked(c, requirePrimaryLease) ==
  IF persistenceError[c] THEN "UNIMPLEMENTED"
  ELSE IF requirePrimaryLease
  THEN LET can == canActAsPrimary(c, inForeground[c], primaryClient, clientMetadata)
       IN  IF can = "exclusive" THEN "PRIMARY_LEASE_EXCLUSIVE" ELSE "body"
  ELSE IF verifyAllowTabSynchronization(c, primaryClient) THEN "body"
  ELSE "PRIMARY_LEASE_EXCLUSIVE"

\* runTransaction without the test of persistenceError (lines 642-644 left out).
runTransactionNoLatch(c, requirePrimaryLease) ==
  IF requirePrimaryLease
  THEN LET can == canActAsPrimary(c, inForeground[c], primaryClient, clientMetadata)
       IN  IF can = "true" THEN "body"
           ELSE IF can = "false" THEN "PRIMARY_LEASE_LOST"
           ELSE "PRIMARY_LEASE_EXCLUSIVE"
  ELSE IF verifyAllowTabSynchronization(c, primaryClient) THEN "body"
  ELSE "PRIMARY_LEASE_EXCLUSIVE"

\* How runTransaction(action, requirePrimaryLease, transactionOperation) of c
\* goes on up to the start of transactionOperation: "body" when it starts, or the
\* error the call rejects with.
runTransaction(c, requirePrimaryLease) ==
  IF persistenceError[c] THEN "UNIMPLEMENTED"
  ELSE IF requirePrimaryLease
  THEN LET can == canActAsPrimary(c, inForeground[c], primaryClient, clientMetadata)
       IN  IF can = "true" THEN "body"
           ELSE IF can = "false" THEN "PRIMARY_LEASE_LOST"
           ELSE "PRIMARY_LEASE_EXCLUSIVE"
  ELSE IF verifyAllowTabSynchronization(c, primaryClient) THEN "body"
  ELSE "PRIMARY_LEASE_EXCLUSIVE"

\* runTransaction up to the start of transactionOperation.
RunTransactionBegin(c, requirePrimaryLease) ==
  LET res == runTransaction(c, requirePrimaryLease)
  IN  /\ Alive(c)
      /\ txn[c] = "idle"
      /\ shutdownStep[c] = "none"
      /\ Event
      /\ ~persistenceError[c] => (simpleDb[c] = "open" /\ StoreFree)
      /\ res = "PRIMARY_LEASE_LOST" => Len(Waiting(queue[c])) < MaxQueue
      /\ txn' = [txn EXCEPT ![c] =
                   IF res # "body" THEN "idle"
                   ELSE IF requirePrimaryLease THEN "primaryBody" ELSE "plainBody"]
      /\ isPrimary' = [isPrimary EXCEPT ![c] =
                         IF res = "PRIMARY_LEASE_LOST" THEN FALSE ELSE @]
      /\ queue' = [queue EXCEPT ![c] =
                     IF res = "PRIMARY_LEASE_LOST"
                       THEN enqueueAndForget(@, "notifyFalse") ELSE @]
      /\ UNCHANGED <<storeVars, started, networkEnabled, inForeground,
                     persistenceError, simpleDb, handlers, refresher,
                     lastGarbageCollectionTime, allowTabSynchronization, listener,
                     shutdownStep, docVisible, proc, notified, calls>>
      /\ result' = [result EXCEPT ![c] =
            Settled(RunTransactionCall(requirePrimaryLease),
                    IF res = "body" THEN "pending" ELSE res)]
      /\ UNCHANGED clockVars
      /\ UNCHANGED logVars

\* The end of transactionOperation without acquireOrExtendPrimaryLease (lines
\* 679-683 left out): the lease keeps the time of an earlier write.
RunTransactionEndNoExtend(c, bodyOk) ==
  /\ Alive(c)
  /\ txn[c] # "idle"
  /\ txn' = [txn EXCEPT ![c] = "idle"]
  /\ result' = [result EXCEPT ![c] =
        Settled(@.call, IF bodyOk THEN "resolved" ELSE "rejected")]
  /\ UNCHANGED <<storeVars, started, isPrimary, networkEnabled,
                 inForeground, persistenceError, simpleDb, handlers, refresher,
                 lastGarbageCollectionTime, allowTabSynchronization, listener, queue,
                 shutdownStep, envVars, notified, calls>>
  /\ UNCHANGED clockVars
  /\ UNCHANGED logVars

\* The end of transactionOperation with acquireOrExtendPrimaryLease also after
\* a transactionOperation that failed.
RunTransactionEndExtendsAnyway(c, bodyOk) ==
  /\ Alive(c)
  /\ txn[c] # "idle"
  /\ txn' = [txn EXCEPT ![c] = "idle"]
  /\ primaryClient' = IF txn[c] = "primaryBody"
                        THEN acquireOrExtendPrimaryLease(c)
                      ELSE primaryClient
  /\ UNCHANGED <<clientMetadata, zombied, started, isPrimary, networkEnabled,
                 inForeground, persistenceError, simpleDb, handlers, refresher,
                 lastGarbageCollectionTime, allowTabSynchronization, listener, queue,
                 shutdownStep, envVars, notified, calls>>
  /\ result' = [result EXCEPT ![c] =
        Settled(@.call, IF bodyOk THEN "resolved" ELSE "rejected")]
  /\ UNCHANGED clockVars
  /\ UNCHANGED logVars

\* transactionOperation ends.  bodyOk: it resolved; the lease is then extended
\* (when required) and the transaction commits.  Otherwise the transaction
\* aborts and the error reaches the caller.
RunTransactionEnd(c, bodyOk) ==
  /\ Alive(c)
  /\ txn[c] # "idle"
  /\ txn' = [txn EXCEPT ![c] = "idle"]
  /\ primaryClient' = IF bodyOk /\ txn[c] = "primaryBody"
                        THEN acquireOrExtendPrimaryLease(c)
                      ELSE primaryClient
  /\ UNCHANGED <<clientMetadata, zombied, started, isPrimary, networkEnabled,
                 inForeground, persistenceError, simpleDb, handlers, refresher,
                 lastGarbageCollectionTime, allowTabSynchronization, listener, queue,
                 shutdownStep, envVars, notified, calls>>
  /\ result' = [result EXCEPT ![c] =
        Settled(@.call, IF bodyOk THEN "resolved" ELSE "rejected")]
  /\ UNCHANGED clockVars
  /\ UNCHANGED logVars

\* ------------------------------------------------------------ specification

ClientStep(c) ==
  \/ \E visible \in BOOLEAN : Start(c, isAvailable, visible)
  \/ SetPrimaryStateListener(c)
  \/ \E v \in BOOLEAN : SetNetworkEnabled(c, v)
  \/ VisibilityChange(c)
  \/ ProcessChanges(c)
  \/ Unload(c)
  \/ RefresherFire(c)
  \/ TaskNotify(c)
  \/ TaskNotifyFalse(c)
  \/ TaskNetwork(c)
  \/ TaskVisibility(c)
  \/ TaskRefresh(c)
  \/ TaskGarbageCollect(c)
  \/ TaskShutdown(c)
  \/ Shutdown(c)
  \/ ShutdownTxn(c)
  \/ \E requirePrimaryLease \in BOOLEAN : RunTransactionBegin(c, requirePrimaryLease)
  \/ \E bodyOk \in BOOLEAN : RunTransactionEnd(c, bodyOk)
  \/ Crash(c)

Next == Tick \/ \E c \in AllClients : ClientStep(c)

Spec == Init /\ [][Next]_vars

\* The behaviours of the clients of Clients with punctual timers.
InitPunctual ==
  InitOf(Clients, Clients, TRUE, TicksPerRefreshPunctual, MaxEventsPunctual, 0, {{}})

SpecPunctual == InitPunctual /\ [][Next]_vars

\* The behaviours of all clients, which all synchronize tabs, with punctual
\* timers.
InitLoss ==
  InitOf(AllClients, {}, TRUE, TicksPerRefresh, MaxEventsLoss, MaxLosses, {{}})

SpecLoss == InitLoss /\ [][Next]_vars

\* The behaviours of the clients of Clients, which all synchronize tabs and of
\* which one has registered its listener before start().
InitListener ==
  InitOf(Clients, {}, FALSE, TicksPerRefresh, MaxEvents, 0,
         {{c} : c \in Clients})

SpecListener == InitListener /\ [][Next]_vars

\* ------------------------------------------------------------------ claims

\* The PrimaryClient record holds a valid lease of a client other than c: its
\* time is at most CLIENT_METADATA_MAX_AGE_MS old and its owner has no zombie
\* entry.
LeaseOfOther(c) ==
  /\ primaryClient # None
  /\ primaryClient.ownerId # c
  /\ now - primaryClient.leaseTimestampMs <= CLIENT_METADATA_MAX_AGE_MS
  /\ ~zombied[primaryClient.ownerId]

\* C1: a runTransaction with requirePrimaryLease that finds a valid lease of
\* another client in its transaction never starts transactionOperation and
\* writes nothing: it rejects with PRIMARY_LEASE_LOST, or with
\* PRIMARY_LEASE_EXCLUSIVE when the holder does not allow tab synchronization.
C1_NoBodyUnderLeaseOfOther ==
  [][\A c \in AllClients :
       (RunTransactionBegin(c, TRUE) /\ ~persistenceError[c] /\ LeaseOfOther(c)) =>
          /\ txn'[c] = "idle"
          /\ result'[c].outcome = IF primaryClient.allowTabSynchronization
                                     THEN "PRIMARY_LEASE_LOST"
                                   ELSE "PRIMARY_LEASE_EXCLUSIVE"
          /\ storeVars' = storeVars]_vars

\* A runTransaction of c has just been rejected with PRIMARY_LEASE_LOST under
\* the valid lease of another client.
C1_Witness ==
  \E c \in AllClients :
    /\ result[c] = Settled("runTransaction(primary)", "PRIMARY_LEASE_LOST")
    /\ txn[c] = "idle"
    /\ LeaseOfOther(c)

C6_StartUnderExclusiveLease ==
  [][\A c \in AllClients :
       (/\ \E visible \in BOOLEAN : Start(c, TRUE, visible)
        /\ LeaseOfOther(c)
        /\ ~primaryClient.allowTabSynchronization) =>
          /\ result'[c] = Settled("start", "PRIMARY_LEASE_EXCLUSIVE")
          /\ ~started'[c]
          /\ ~isPrimary'[c]
          /\ primaryClient' = primaryClient]_vars

\* The start() of c has just been rejected with PRIMARY_LEASE_EXCLUSIVE under the
\* valid lease of a client that does not allow tab synchronization.
C6_Witness ==
  \E c \in AllClients :
    /\ result[c] = Settled("start", "PRIMARY_LEASE_EXCLUSIVE")
    /\ ~started[c]
    /\ LeaseOfOther(c)
    /\ ~primaryClient.allowTabSynchronization

\* A step of c that runs updateClientMetadataAndTryBecomePrimary.
UpdateStep(c) ==
  \/ \E visible \in BOOLEAN : Start(c, TRUE, visible)
  \/ TaskNetwork(c) /\ started[c]
  \/ TaskVisibility(c) /\ simpleDb[c] = "open"
  \/ TaskRefresh(c) /\ simpleDb[c] = "open"

\* C7: while the zombie entry of the owner of the PrimaryClient record exists,
\* whatever the time of the lease and whether or not the owner's shutdown() ever
\* runs its transaction, an update of another client that is online and in the
\* foreground makes that client primary and writes the lease for it.
C7_ClaimFromZombiedOwner ==
  [][\A c \in AllClients :
       (/\ UpdateStep(c)
        /\ primaryClient # None
        /\ primaryClient.ownerId # c
        /\ zombied[primaryClient.ownerId]
        /\ networkEnabled[c]
        /\ inForeground'[c]) =>
          /\ isPrimary'[c]
          /\ primaryClient' = DbPrimaryClient(c, allowTabSynchronization[c], now)]_vars

\* Client c holds the lease it has just written while the zombie entry and the
\* metadata of another client, whose shutdown() has not run its transaction,
\* are still there and that client still has isPrimary = true.
C7_Witness ==
  \E c, d \in AllClients :
    /\ c # d
    /\ zombied[d] /\ isPrimary[d] /\ clientMetadata[d] # None
    /\ isPrimary[c] /\ started[c]
    /\ primaryClient = DbPrimaryClient(c, allowTabSynchronization[c], now)

\* C8: a runTransaction with requirePrimaryLease writes nothing to the
\* PrimaryClient record when it starts transactionOperation; when
\* transactionOperation has resolved it commits with the record {the client, its
\* allowTabSynchronization, the time of the commit}.
C8_LeaseExtendedAfterBody ==
  [][\A c \in AllClients :
       /\ (RunTransactionBegin(c, TRUE) /\ txn'[c] = "primaryBody") =>
             primaryClient' = primaryClient
       /\ (txn[c] = "primaryBody" /\ result'[c].outcome = "resolved") =>
             /\ txn'[c] = "idle"
             /\ primaryClient' = DbPrimaryClient(c, allowTabSynchronization[c], now)]_vars

\* A runTransaction with requirePrimaryLease has resolved and the record is the
\* client's, with the time of the commit.
C8_Witness ==
  \E c \in AllClients :
    /\ result[c] = Settled("runTransaction(primary)", "resolved")
    /\ txn[c] = "idle"
    /\ primaryClient = DbPrimaryClient(c, allowTabSynchronization[c], now)

\* C9: a runTransaction without requirePrimaryLease rejects with
\* PRIMARY_LEASE_EXCLUSIVE, without starting transactionOperation, exactly when
\* the record holds a valid lease of another client that does not allow tab
\* synchronization; otherwise transactionOperation starts.  Neither its start
\* nor its end writes the PrimaryClient record or changes isPrimary.
C9_PlainTransaction ==
  [][\A c \in AllClients :
       /\ (~persistenceError[c] /\ RunTransactionBegin(c, FALSE)) =>
             /\ IF LeaseOfOther(c) /\ ~primaryClient.allowTabSynchronization
                  THEN /\ txn'[c] = "idle"
                       /\ result'[c] = Settled("runTransaction", "PRIMARY_LEASE_EXCLUSIVE")
                  ELSE /\ txn'[c] = "plainBody"
                       /\ result'[c] = Settled("runTransaction", "pending")
             /\ primaryClient' = primaryClient
             /\ isPrimary' = isPrimary
       /\ (txn[c] = "plainBody" /\ result'[c].outcome \in {"resolved", "rejected"}) =>
             /\ primaryClient' = primaryClient
             /\ isPrimary' = isPrimary]_vars

\* transactionOperation of a runTransaction without requirePrimaryLease runs
\* while the record is that of another client that does not allow tab
\* synchronization and whose lease is not valid.
C9_Witness ==
  \E c \in AllClients :
    /\ txn[c] = "plainBody"
    /\ primaryClient # None
    /\ primaryClient.ownerId # c
    /\ ~primaryClient.allowTabSynchronization
    /\ ~LeaseOfOther(c)

\* C10: start() without an available IndexedDb sets persistenceError, rejects
\* with it and writes nothing; persistenceError stays set; every runTransaction
\* after it rejects with the same error and changes neither the stores nor a
\* field of the client.
C10_LatchedPersistenceError ==
  [][\A c \in AllClients :
       /\ (\E visible \in BOOLEAN : Start(c, FALSE, visible)) =>
             /\ persistenceError'[c]
             /\ result'[c] = Settled("start", "UNIMPLEMENTED")
             /\ storeVars' = storeVars
       /\ (persistenceError[c] /\ proc'[c] = "run") => persistenceError'[c]
       /\ \A requirePrimaryLease \in BOOLEAN :
            (persistenceError[c] /\ RunTransactionBegin(c, requirePrimaryLease)) =>
               /\ result'[c] =
                    Settled(RunTransactionCall(requirePrimaryLease), "UNIMPLEMENTED")
               /\ storeVars' = storeVars
               /\ localVars' = localVars
               /\ notified' = notified]_vars

\* A runTransaction of a client whose start() found no IndexedDb has been
\* rejected with the latched error.
C10_Witness ==
  \E c \in AllClients :
    /\ persistenceError[c]
    /\ simpleDb[c] = "unset"
    /\ result[c] = Settled("runTransaction(primary)", "UNIMPLEMENTED")

\* A started client that is not zombied and whose refresher runs: its timer is
\* pending or its operation is on the queue.
Candidate(c) ==
  /\ Alive(c)
  /\ started[c]
  /\ ~zombied[c]
  /\ refresher[c] # NoTimer
     \/ \E i \in 1..Len(queue[c]) : queue[c][i] \in {"refresh", "gc"}

\* Client c is primary and the PrimaryClient record is its own.
HoldsLease(c) ==
  /\ isPrimary[c]
  /\ primaryClient # None
  /\ primaryClient.ownerId = c

\* The deadline of a takeover.
TakeoverMs == CLIENT_METADATA_MAX_AGE_MS + CLIENT_METADATA_REFRESH_INTERVAL_MS

\* No client writes the PrimaryClient record for itself while the record is a
\* valid lease of another client.
NoClaimUnderLeaseOfOther ==
  \A c \in AllClients :
    LeaseOfOther(c) => (primaryClient' = None \/ primaryClient'.ownerId # c)

\* C3 as stated: with punctual timers, the clock does not pass
\* CLIENT_METADATA_MAX_AGE_MS + CLIENT_METADATA_REFRESH_INTERVAL_MS after the
\* crash or the zombie entry of a primary client while there are started clients
\* that are not zombied and whose refresher runs, unless one of them is primary
\* and holds the lease; and no client writes the PrimaryClient record while it
\* holds a valid lease of another client.
C3_TakeoverInTime ==
  [][/\ (/\ Tick
         /\ punctual
         /\ sinceLoss # NoTimer
         /\ sinceLoss + TickMs > TakeoverMs
         /\ \E c \in AllClients : Candidate(c)) =>
            \E c \in AllClients : Candidate(c) /\ HoldsLease(c)
     /\ NoClaimUnderLeaseOfOther]_vars

\* C3, amended: the same with the deadline counted from the crash or the zombie
\* entry of the primary client or, when a client has started, shut down, crashed
\* or changed its visibility or its network state since, from the last of these:
\* a client defers to the metadata of a preferred client for
\* CLIENT_METADATA_MAX_AGE_MS after that client has crashed, and until its own
\* next refresh after that client has shut down or has lost its preference.
C3_TakeoverAfterLastInput ==
  [][/\ (/\ Tick
         /\ punctual
         /\ sinceLoss # NoTimer
         /\ sinceLoss + TickMs > TakeoverMs
         /\ sinceInput + TickMs > TakeoverMs
         /\ \E c \in AllClients : Candidate(c)) =>
            \E c \in AllClients : Candidate(c) /\ HoldsLease(c)
     /\ NoClaimUnderLeaseOfOther]_vars

\* Two clients have crashed, the primary client first; the deadline has passed
\* for the first crash and is reached for the second, and the third client,
\* whose refresher runs, has just written the lease and is primary.
C3_Witness ==
  /\ punctual
  /\ sinceLoss = MaxElapsed
  /\ sinceInput = 2 * CLIENT_METADATA_REFRESH_INTERVAL_MS
  /\ Cardinality({d \in AllClients : proc[d] = "crashed"}) = 2
  /\ \E c \in AllClients :
       /\ Candidate(c) /\ HoldsLease(c)
       /\ primaryClient.leaseTimestampMs = now
       /\ refresher[c] = now + CLIENT_METADATA_REFRESH_INTERVAL_MS

\* A client that is started and neither shut down nor crashed.
Live(c) == Alive(c) /\ started[c]

\* An eligible client: started and not zombied.
Eligible(c) == Live(c) /\ ~zombied[c]

\* The live clients with isPrimary = true.
Believers == {c \in AllClients : Live(c) /\ isPrimary[c]}

BackgroundAndForeground(a, b) ==
  /\ a # b
  /\ Candidate(a) /\ Candidate(b)
  /\ allowTabSynchronization[a] /\ allowTabSynchronization[b]
  /\ networkEnabled[a] /\ networkEnabled[b]
  /\ ~inForeground[a] /\ inForeground[b]

\* C5 as stated: with punctual timers, of two started online clients that allow
\* tab synchronization, one in the background and one in the foreground, the one
\* in the foreground is primary and the other is not, once no input has happened
\* for three refresh intervals.
C5_ForegroundIsPrimary ==
  [][\A a, b \in AllClients :
       (/\ Tick
        /\ punctual
        /\ sinceInput >= MaxElapsed
        /\ BackgroundAndForeground(a, b)) =>
           isPrimary[b] /\ ~isPrimary[a]]_vars

\* Another client whose metadata is active is online and in the foreground.
ForegroundPeer(c) ==
  \E o \in filterActiveClients(clientMetadata, CLIENT_METADATA_MAX_AGE_MS) \ {c} :
    clientMetadata[o].networkEnabled /\ clientMetadata[o].inForeground

\* The number of notifications of the listener that wait in the queue q.
Notifications(q) == Len(SelectSeq(q, LAMBDA t : t = "notify"))

\* C5, amended: the preference for the foreground decides only when the lease
\* is absent or not valid.  An update of an online client that holds a valid
\* lease keeps it primary and extends the lease, in the background too, and when
\* it was primary no call of the listener is enqueued; without a valid lease an update of an
\* online client makes it primary when it is in the foreground, and leaves it
\* secondary when it is in the background and an active client is online and in
\* the foreground.
C5_ValidLeaseIsKept ==
  [][\A c \in AllClients :
       UpdateStep(c) =>
         /\ (/\ currentLeaseIsValid(primaryClient)
             /\ isLocalClient(c, primaryClient)
             /\ networkEnabled[c]) =>
               /\ isPrimary'[c]
               /\ primaryClient' = DbPrimaryClient(c, allowTabSynchronization[c], now)
               /\ isPrimary[c] => Notifications(queue'[c]) <= Notifications(queue[c])
         /\ (/\ ~currentLeaseIsValid(primaryClient)
             /\ networkEnabled[c]
             /\ inForeground'[c]) =>
               /\ isPrimary'[c]
               /\ primaryClient' = DbPrimaryClient(c, allowTabSynchronization[c], now)
         /\ (/\ ~currentLeaseIsValid(primaryClient)
             /\ networkEnabled[c]
             /\ ~inForeground'[c]
             /\ ForegroundPeer(c)) =>
               ~isPrimary'[c]]_vars

\* Primary client a has gone to the background while b is online and in the
\* foreground; three refresh intervals later a still is primary and holds a
\* lease it has just extended, b is secondary, and the listeners have heard of
\* no change.
C5_Witness ==
  \E a, b \in AllClients :
    /\ punctual
    /\ sinceInput >= MaxElapsed
    /\ BackgroundAndForeground(a, b)
    /\ docVisible[b] /\ ~docVisible[a]
    /\ events = 0
    /\ HoldsLease(a) /\ ~isPrimary[b]
    /\ primaryClient.leaseTimestampMs = now
    /\ notified[a] # "false" /\ notified[b] # "true"

\* start() of c has failed with PRIMARY_LEASE_EXCLUSIVE and shutdown() has not
\* been called: the database is open and the handlers are attached, and the
\* client is not started.
FailedStart(c) ==
  /\ Alive(c)
  /\ ~started[c]
  /\ simpleDb[c] = "open"
  /\ handlers[c]
  /\ shutdownStep[c] = "none"
  /\ ~zombied[c]

\* C11 as stated: after start() of a client has failed with
\* PRIMARY_LEASE_EXCLUSIVE no step makes the client primary, starts the
\* transactionOperation of a runTransaction of it or leaves the PrimaryClient
\* record with the client as the owner.
C11_FailedStateAfterExclusiveStart ==
  [][\A c \in AllClients :
       FailedStart(c) =>
         /\ ~isPrimary'[c]
         /\ txn'[c] = "idle"
         /\ ~(primaryClient' # None /\ primaryClient'.ownerId = c)]_vars

\* A call of shutdown() of c ends in this step: its transaction commits, or it
\* cannot open a transaction.
ShutdownEnds(c) ==
  \/ ShutdownTxn(c)
  \/ Shutdown(c) /\ shutdownStep'[c] = "none"

\* C12 as stated: when a call of shutdown() ends, after a shutdown() that has
\* completed or a start() that has aborted too, the client is not started and
\* not primary, the store holds no metadata of it and no lease of it, and there
\* is no zombie entry of it.
C12_ShutdownIdempotent ==
  [][\A c \in AllClients :
       ShutdownEnds(c) =>
         /\ ~started'[c]
         /\ ~isPrimary'[c]
         /\ clientMetadata'[c] = None
         /\ ~isLocalClient(c, primaryClient')
         /\ ~zombied'[c]]_vars

\* C13: shutdown() of a client writes nothing to the store before its
\* transaction; the step of the transaction removes the metadata of the client
\* and the lease if the client is the owner, leaves the record of another owner
\* and the metadata of the other clients as they are, and leaves the client not
\* started, not primary and without a zombie entry.
C13_ShutdownReleasesAtOnce ==
  [][\A c \in AllClients :
       /\ (Shutdown(c) \/ TaskShutdown(c)) =>
            primaryClient' = primaryClient /\ clientMetadata' = clientMetadata
       /\ ShutdownTxn(c) =>
            /\ clientMetadata' = [clientMetadata EXCEPT ![c] = None]
            /\ primaryClient' = IF isLocalClient(c, primaryClient) THEN None
                                ELSE primaryClient
            /\ ~zombied'[c]
            /\ ~isPrimary'[c]
            /\ ~started'[c]]_vars

\* shutdown() of a client that was started and primary has completed: its
\* metadata and its lease are gone, the metadata of another started client is
\* still there.
C13_Witness ==
  \E c, d \in AllClients :
    /\ c # d
    /\ Alive(c) /\ simpleDb[c] = "closed" /\ shutdownStep[c] = "none"
    /\ result[c] = Settled("start", "resolved")
    /\ ~started[c] /\ ~isPrimary[c] /\ ~zombied[c]
    /\ clientMetadata[c] = None
    /\ primaryClient = None
    /\ started[d] /\ clientMetadata[d] # None

\* ------------------------------------------------------- garbage collection

\* The refresh operation of c runs a garbage collection whose transaction
\* commits.
GCPass(c) ==
  /\ TaskGarbageCollect(c)
  /\ refresher'[c] = now + CLIENT_METADATA_REFRESH_INTERVAL_MS

\* The transaction of the garbage collection of c rejects.
GCAborts(c) ==
  /\ TaskGarbageCollect(c)
  /\ refresher'[c] # now + CLIENT_METADATA_REFRESH_INTERVAL_MS

\* The metadata that the garbage collection of c reads.
ReadByGC(c) == clientMetadata

\* The clients that are active at the start of the garbage collection of c.
ActiveAtGC(c) ==
  filterActiveClients(ReadByGC(c), CLIENT_STATE_GARBAGE_COLLECTION_THRESHOLD_MS)

InactiveAtGC(c, o) ==
  \/ ReadByGC(c)[o].updateTimeMs < now - CLIENT_STATE_GARBAGE_COLLECTION_THRESHOLD_MS
  \/ zombied[o]

\* The clients other than c whose records the garbage collection of c reads and
\* that are active.
ActivePeersAtGC(c) ==
  {o \in AllClients \ {c} : ReadByGC(c)[o] # None /\ ~InactiveAtGC(c, o)}

\* The least lastProcessedDocumentChangeId of the records in S that the garbage
\* collection of c reads.
OldestChangeId(c, S) ==
  CHOOSE i \in {ReadByGC(c)[o].lastProcessedDocumentChangeId : o \in S} :
    \A o \in S : i <= ReadByGC(c)[o].lastProcessedDocumentChangeId

LostNotifications(q) == Len(SelectSeq(q, LAMBDA t : t = "notifyFalse"))

\* C16 as stated: a step that enqueues a call of the registered listener of a
\* client changes isPrimary of the client, a failed runTransaction that
\* requires the lease on a secondary client included.
C16_ListenerOnlyOnTransition ==
  [][\A c \in AllClients :
       (/\ listener[c]
        /\ Notifications(queue'[c]) + LostNotifications(queue'[c])
             > Notifications(queue[c]) + LostNotifications(queue[c])) =>
         isPrimary'[c] # isPrimary[c]]_vars

\* C16, amended: updateClientMetadataAndTryBecomePrimary enqueues a call of the
\* listener only when it changed isPrimary; a runTransaction that requires the
\* lease and fails with PRIMARY_LEASE_LOST, the one of the garbage collection
\* included, enqueues a call with false whether the client was primary or not; and the listener is called only by
\* setPrimaryStateListener and by the first task with the value of isPrimary at
\* the time of the call, and by the second with false.
C16_ListenerOnTransitionOrLeaseLost ==
  [][\A c \in AllClients :
       /\ Notifications(queue'[c]) > Notifications(queue[c]) =>
            isPrimary'[c] # isPrimary[c]
       /\ LostNotifications(queue'[c]) > LostNotifications(queue[c]) =>
            /\ ~isPrimary'[c]
            /\ \/ result'[c] = Settled(RunTransactionCall(TRUE), "PRIMARY_LEASE_LOST")
               \/ GCAborts(c)
       /\ (calls'[c] # calls[c] /\ calls'[c] # <<>>) =>
            \/ /\ SetPrimaryStateListener(c)
               /\ calls'[c] = Append(calls[c], BoolStr(isPrimary[c]))
            \/ /\ TaskNotify(c) /\ started[c]
               /\ calls'[c] = Append(calls[c], BoolStr(isPrimary[c]))
            \/ /\ TaskNotifyFalse(c)
               /\ calls'[c] = Append(calls[c], "false")]_vars

\* The listener of the secondary client c, registered before start(), was
\* called with false again after a runTransaction of c that requires the lease
\* failed with PRIMARY_LEASE_LOST, and never with true.
C16_Witness ==
  \E c \in AllClients :
    /\ listener[c] /\ started[c] /\ ~isPrimary[c]
    /\ result[c] = Settled(RunTransactionCall(TRUE), "PRIMARY_LEASE_LOST")
    /\ calls[c] = <<"false", "false">>

\* Client A is started, online and in the foreground, and no other client has
\* started.
Solo ==
  /\ Alive("A") /\ started["A"]
  /\ networkEnabled["A"] /\ inForeground["A"]
  /\ \A d \in AllClients \ {"A"} : proc[d] \in {"new", "absent"}

\* The number of calls with true in the calls s of a listener.
Trues(s) == Len(SelectSeq(s, LAMBDA v : v = "true"))

\* C17 as stated: after a refresh of the only client A, started online and in
\* the foreground, A is primary, the PrimaryClient record names A, and the
\* listener of A, if registered, has been called with true exactly once, and
\* with false at its registration at most.
C17_SoloStartupOnceTrue ==
  [][(TaskRefresh("A") /\ Solo') =>
       /\ isPrimary'["A"]
       /\ primaryClient' # None /\ primaryClient'.ownerId = "A"
       /\ listener["A"] => calls'["A"] \in {<<"true">>, <<"false", "true">>}]_vars

\* C17, amended: after a refresh of the only client A, started online and in
\* the foreground, A is primary and the PrimaryClient record names A; the
\* listener of A, if registered, was called with false at a registration
\* before start() only, and with true once, or twice when it was registered
\* after start() and before the task that start() enqueued ran.
C17_SoloStartupPrimary ==
  [][(TaskRefresh("A") /\ Solo') =>
       /\ isPrimary'["A"]
       /\ primaryClient' # None /\ primaryClient'.ownerId = "A"
       /\ listener["A"] =>
            calls'["A"] \in {<<"true">>, <<"false", "true">>, <<"true", "true">>}]_vars

\* The only client A has run a refresh with its garbage collection; its
\* listener, registered after start() and before the task of start() ran, was
\* called with true twice.
C17_Witness ==
  /\ Solo
  /\ isPrimary["A"] /\ isLocalClient("A", primaryClient)
  /\ lastGarbageCollectionTime["A"] = now
  /\ listener["A"] /\ calls["A"] = <<"true", "true">>

\* ----------------------------------------------------------- the refresher

\* C18 as stated: the operation of clientMetadataRefresher of a started client
\* sets the next timer whether its update of the metadata and its garbage
\* collection succeeded or not.
C18_RefresherAlwaysReschedules ==
  [][\A c \in AllClients :
       /\ (TaskRefresh(c) /\ started[c] /\ ~GarbageCollecting(c)') =>
            refresher'[c] = now + CLIENT_METADATA_REFRESH_INTERVAL_MS
       /\ (TaskGarbageCollect(c) /\ started[c]) =>
            refresher'[c] = now + CLIENT_METADATA_REFRESH_INTERVAL_MS]_vars

\* ---------------------------------------------------- the writes of the lease

\* The PrimaryClient record holds a valid lease.
ValidLease ==
  /\ primaryClient # None
  /\ now - primaryClient.leaseTimestampMs <= CLIENT_METADATA_MAX_AGE_MS
  /\ ~zombied[primaryClient.ownerId]

\* A step of o in a transaction of which o may write or delete the
\* PrimaryClient record.
LeaseStep(o) ==
  \/ UpdateStep(o)
  \/ TaskGarbageCollect(o)
  \/ ShutdownTxn(o)
  \/ \E bodyOk \in BOOLEAN : RunTransactionEnd(o, bodyOk)

\* This step puts the PrimaryClient record of c.
WritesLease(c) ==
  /\ primaryClient' # primaryClient
  /\ primaryClient' = DbPrimaryClient(c, allowTabSynchronization[c], now)

\* canActAsPrimary of c in the transaction of this step, which has put the
\* metadata of c, returns true.
CanActInStep(c) ==
  canActAsPrimary(c, inForeground'[c], primaryClient,
                  [clientMetadata EXCEPT
                     ![c] = DbClientMetadata(c, now, networkEnabled[c],
                                             inForeground'[c],
                                             lastProcessedDocumentChangeId[c])])
    = "true"

\* C19: only a step of its owner changes a valid lease; a client puts the
\* PrimaryClient record only at the end of a runTransaction whose canActAsPrimary
\* returned true, in an update whose canActAsPrimary returns true or in the
\* transaction of a garbage collection whose canActAsPrimary returns true; only its
\* owner deletes the record; and a start() that finds the valid lease of
\* another client that has just started leaves the record as it is.
C19_LeaseWrittenOnlyByEligible ==
  [][/\ (ValidLease /\ primaryClient' # primaryClient) =>
          Tick \/ LeaseStep(primaryClient.ownerId)
     /\ \A c \in AllClients :
          WritesLease(c) =>
            \/ txn[c] = "primaryBody" /\ \E bodyOk \in BOOLEAN : RunTransactionEnd(c, bodyOk)
            \/ UpdateStep(c) /\ CanActInStep(c)
            \/ /\ TaskGarbageCollect(c)
               /\ canActAsPrimary(c, inForeground[c], primaryClient,
                                   clientMetadata) = "true"
     /\ (primaryClient # None /\ primaryClient' = None) =>
          LeaseStep(primaryClient.ownerId)
     /\ \A c \in AllClients :
          ((\E visible \in BOOLEAN : Start(c, TRUE, visible)) /\ LeaseOfOther(c)) =>
            primaryClient' = primaryClient /\ ~isPrimary'[c]]_vars

\* Two clients have started one after the other from an absent lease: the
\* first wrote the record, the second found the valid lease and left it; the
\* record still has the time of the first start.
C19_Witness ==
  \E c, d \in AllClients :
    /\ c # d
    /\ result[c] = Settled("start", "resolved")
    /\ result[d] = Settled("start", "resolved")
    /\ started[c] /\ started[d]
    /\ isPrimary[c] /\ ~isPrimary[d]
    /\ primaryClient = DbPrimaryClient(c, allowTabSynchronization[c], now)
    /\ clientMetadata[c] # None /\ clientMetadata[d] # None
    /\ clientMetadata[c].updateTimeMs = now /\ clientMetadata[d].updateTimeMs = now
    /\ lastGarbageCollectionTime[c] = NEGATIVE_INFINITY

\* -------------------------------------------- canActAsPrimary under the own lease

\* The PrimaryClient record holds a valid lease of c.
OwnValidLease(c) == ValidLease /\ primaryClient.ownerId = c

\* The metadata store holds the record of an active client o other than c that
\* is online, or that is in the foreground while c, which is offline, is not
\* (fg: inForeground of c).
PreferredToOffline(c, fg) ==
  \E o \in AllClients \ {c} :
    /\ clientMetadata[o] # None
    /\ now - clientMetadata[o].updateTimeMs <= CLIENT_METADATA_MAX_AGE_MS
    /\ ~zombied[o]
    /\ \/ clientMetadata[o].networkEnabled
       \/ ~fg /\ clientMetadata[o].inForeground

\* C20 as stated: an update of c under a valid lease of c leaves c primary
\* exactly when the network of c is enabled.
C20_OwnLeaseKeptIffNetwork ==
  [][\A c \in AllClients :
       (UpdateStep(c) /\ OwnValidLease(c)) =>
         isPrimary'[c] = networkEnabled[c]]_vars

\* C20, amended: an update of c under a valid lease of c leaves c primary when
\* the network of c is enabled; when it is disabled, exactly when no other
\* active client is online and, if c is in the background, none is in the
\* foreground: with no other active client c stays primary.
C20_OwnLeaseKeptUnlessPreferred ==
  [][\A c \in AllClients :
       (UpdateStep(c) /\ OwnValidLease(c)) =>
         isPrimary'[c] = (networkEnabled[c] \/ ~PreferredToOffline(c, inForeground'[c]))]_vars

\* The offline client c, alone in the metadata store, is primary and has just
\* extended its lease in an update that wrote its disabled network.
C20_Witness ==
  \E c \in AllClients :
    /\ started[c] /\ ~networkEnabled[c] /\ isPrimary[c]
    /\ primaryClient = DbPrimaryClient(c, allowTabSynchronization[c], now)
    /\ clientMetadata[c] # None /\ ~clientMetadata[c].networkEnabled
    /\ clientMetadata[c].updateTimeMs = now
    /\ \A o \in AllClients \ {c} : clientMetadata[o] = None

\* --------------------------------------- canActAsPrimary without a valid lease

\* The metadata store holds the record of an active client P other than c that
\* is online while c is not, or that is in the foreground while c is not and
\* has the network state of c (fg: inForeground of c).
BetterPeer(c, fg) ==
  \E P \in AllClients \ {c} :
    /\ clientMetadata[P] # None
    /\ now - clientMetadata[P].updateTimeMs <= CLIENT_METADATA_MAX_AGE_MS
    /\ ~zombied[P]
    /\ \/ clientMetadata[P].networkEnabled /\ ~networkEnabled[c]
       \/ /\ clientMetadata[P].inForeground /\ ~fg
          /\ clientMetadata[P].networkEnabled = networkEnabled[c]

\* C21: an update of c that finds no valid lease leaves c primary when c is
\* online and in the foreground, and otherwise exactly when no other active
\* client is online while c is not, or in the foreground while c is not with
\* the network state of c.
C21_EligibleWithoutValidLease ==
  [][\A c \in AllClients :
       (UpdateStep(c) /\ ~ValidLease) =>
         isPrimary'[c] = (\/ networkEnabled[c] /\ inForeground'[c]
                          \/ ~BetterPeer(c, inForeground'[c]))]_vars

\* The background client c has taken the lease in an update although the
\* record of d, which crashed, is in the metadata store: the first client to
\* start, d, was the owner of the lease or found none, so the update of c found
\* no valid lease.
C21_Witness ==
  \E c, d \in AllClients :
    /\ Rank(d) < Rank(c)
    /\ proc[d] = "crashed" /\ clientMetadata[d] # None
    /\ started[c] /\ isPrimary[c] /\ ~inForeground[c] /\ networkEnabled[c]
    /\ primaryClient = DbPrimaryClient(c, allowTabSynchronization[c], now)

\* section: the zombie entry at shutdown

\* C22: a step of shutdown() of a client that removes the zombie entry of the
\* client is the step of the transaction that deletes the metadata of the
\* client; a shutdown() whose transaction is not run leaves the entry; and a
\* client whose shutdown() has removed the entry has no metadata in the store.
C22_ZombieEntryOutlivesMetadata ==
  /\ [][\A c \in AllClients :
          /\ ((Shutdown(c) \/ TaskShutdown(c) \/ ShutdownTxn(c))
                /\ zombied[c] /\ ~zombied'[c]) =>
               /\ ShutdownTxn(c)
               /\ clientMetadata'[c] = None
          /\ (Shutdown(c) \/ TaskShutdown(c)) => zombied'[c]]_vars
  /\ [](\A c \in AllClients :
          (simpleDb[c] = "closed" /\ ~zombied[c]) => clientMetadata[c] = None)

C22_Witness ==
  \E c, d \in AllClients :
    /\ c # d
    /\ proc[c] = "run" /\ simpleDb[c] = "closed" /\ ~zombied[c]
    /\ clientMetadata[c] = None
    /\ clientMetadata[d] # None /\ isPrimary[d]

\* section: the zombie entries at garbage collection

C23_AbortReached ==
  \E c \in AllClients :
    /\ Alive(c) /\ lastGarbageCollectionTime[c] = now
    /\ ~isPrimary[c] /\ refresher[c] = NoTimer
    /\ queue[c] # <<>> /\ Head(queue[c]) = "notifyFalse"

\* section: when the garbage collection runs

\* The refresh operation of c passes the test of
\* maybeGarbageCollectMultiClientState and opens the transaction of the garbage
\* collection.
GCStarts(c) == TaskRefresh(c) /\ GarbageCollecting(c)'

\* C24: the metadata of a client o leaves the store only in the transaction of
\* the shutdown() of o or in the transaction of a garbage collection of a
\* client c for which canActAsPrimary returns true in that transaction and
\* which writes the lease for c in it; a client starts a garbage collection
\* only when it is primary and its lastGarbageCollectionTime is older than 30
\* minutes, and sets lastGarbageCollectionTime to the present before the
\* transaction, which does not change it, committed or not.
C24_GCOnlyByPrimaryOncePerThreshold ==
  [][/\ \A o \in AllClients :
          (clientMetadata[o] # None /\ clientMetadata'[o] = None) =>
            \/ ShutdownTxn(o)
            \/ \E c \in AllClients :
                 /\ TaskGarbageCollect(c)
                 /\ canActAsPrimary(c, inForeground[c], primaryClient,
                                     clientMetadata) = "true"
                 /\ primaryClient' = DbPrimaryClient(c, allowTabSynchronization[c], now)
     /\ \A c \in AllClients :
          /\ GCStarts(c) =>
               /\ isPrimary'[c]
               /\ now - lastGarbageCollectionTime[c] >
                    CLIENT_STATE_GARBAGE_COLLECTION_THRESHOLD_MS
               /\ lastGarbageCollectionTime'[c] = now
          /\ TaskGarbageCollect(c) =>
               lastGarbageCollectionTime'[c] = lastGarbageCollectionTime[c]
          /\ (TaskRefresh(c) /\ ~GCStarts(c)) =>
               lastGarbageCollectionTime'[c] = lastGarbageCollectionTime[c]]_vars

\* The primary client c, which holds the lease it has just written, has run a
\* garbage collection that deleted the metadata of d, a started client that is
\* not zombied and has not shut down.
C24_Witness ==
  \E c, d \in AllClients :
    /\ c # d
    /\ Alive(c) /\ isPrimary[c] /\ lastGarbageCollectionTime[c] = now
    /\ primaryClient = DbPrimaryClient(c, allowTabSynchronization[c], now)
    /\ refresher[c] = now + CLIENT_METADATA_REFRESH_INTERVAL_MS
    /\ Alive(d) /\ started[d] /\ ~zombied[d] /\ shutdownStep[d] = "none"
    /\ clientMetadata[d] = None

\* section: the listener after shutdown()

\* C25: the task that updateClientMetadataAndTryBecomePrimary enqueued calls the
\* listener, with the value of isPrimary at that time, when the client is
\* started at that time; when shutdown() has set started to false the task
\* calls no listener.
C25_NotifyOnlyWhileStarted ==
  [][\A c \in AllClients :
       TaskNotify(c) =>
         IF started[c] /\ listener[c]
         THEN /\ notified'[c] = BoolStr(isPrimary[c])
              /\ calls'[c] = Called(calls[c], BoolStr(isPrimary[c]))
         ELSE notified' = notified /\ calls' = calls]_vars

\* Client c, whose listener was registered before start(), became primary in
\* start() and called shutdown() before the task that start() enqueued ran:
\* the task has run, before the transaction of shutdown(), and the listener
\* has heard of the registration only.
C25_Witness ==
  \E c \in AllClients :
    /\ Alive(c) /\ listener[c] /\ ~started[c]
    /\ shutdownStep[c] = "direct"
    /\ isPrimary[c] /\ isLocalClient(c, primaryClient)
    /\ queue[c] = <<>>
    /\ calls[c] = <<"false">>

\* section: an update after an update

\* What updateClientMetadataAndTryBecomePrimary of c leaves when it runs now.
UpdateAgain(c) == updateClientMetadataAndTryBecomePrimary(c, inForeground[c])

\* The clients with a record in the metadata store `clients`.
Keys(clients) == {o \in AllClients : clients[o] # None}

\* The record r without its time.
Untimed(r) ==
  IF r = None THEN None
  ELSE [clientId |-> r.clientId, networkEnabled |-> r.networkEnabled,
        inForeground |-> r.inForeground,
        lastProcessedDocumentChangeId |-> r.lastProcessedDocumentChangeId]

\* C26: an update of c that runs in the state that an update of c has left
\* leaves isPrimary of c, the owner of the PrimaryClient record and its
\* allowTabSynchronization, the keys of the metadata store and every field of
\* its records but the times as they are, and enqueues no call of the
\* listener.
C26_UpdateIdempotent ==
  [][\A c \in AllClients :
       UpdateStep(c) =>
         /\ UpdateAgain(c)'.isPrimary = isPrimary'[c]
         /\ ~UpdateAgain(c)'.notify
         /\ (UpdateAgain(c)'.primary = None) = (primaryClient' = None)
         /\ primaryClient' # None =>
              /\ UpdateAgain(c)'.primary.ownerId = primaryClient'.ownerId
              /\ UpdateAgain(c)'.primary.allowTabSynchronization =
                   primaryClient'.allowTabSynchronization
         /\ Keys(UpdateAgain(c)'.clients) = Keys(clientMetadata')
         /\ \A o \in AllClients :
              Untimed(UpdateAgain(c)'.clients[o]) = Untimed(clientMetadata'[o])]_vars

\* Client d has started as a secondary client under the lease of c and has run
\* a refresh: it still is secondary, the lease still is the one of c, and no
\* call of a listener waits.
C26_Witness ==
  \E c, d \in AllClients :
    /\ c # d
    /\ started[c] /\ isPrimary[c]
    /\ primaryClient # None /\ primaryClient.ownerId = c
    /\ primaryClient.leaseTimestampMs < now
    /\ started[d] /\ ~isPrimary[d]
    /\ clientMetadata[d] # None /\ clientMetadata[d].updateTimeMs = now
    /\ refresher[d] = now + CLIENT_METADATA_REFRESH_INTERVAL_MS
    /\ queue[d] = <<>>

\* section: the lease of a secondary client

\* Client c runs, none of its transactions is in progress, the PrimaryClient
\* record is a valid lease of c, and isPrimary of c is false.
SecondaryHoldsLease(c) ==
  /\ Alive(c)
  /\ txn[c] = "idle" /\ ~GarbageCollecting(c) /\ shutdownStep[c] = "none"
  /\ ValidLease /\ primaryClient.ownerId = c
  /\ ~isPrimary[c]

\* C27 as stated: while no transaction of a client is in progress and the
\* PrimaryClient record is a valid lease of that client, isPrimary of the client
\* is true.
C27_OwnerOfValidLeaseIsPrimary ==
  \A c \in AllClients : ~SecondaryHoldsLease(c)

\* C27, amended: no update and no shutdown() of a client leads to a valid lease
\* of the client with isPrimary false: the step that does is the end of a
\* runTransaction of the client, which puts the record when the lease is
\* required and leaves isPrimary as it is, a runTransaction that requires the lease and
\* fails with PRIMARY_LEASE_LOST under the lease of the client itself, or the
\* transaction of a garbage collection; an update that makes the client
\* primary puts the record, and an update or a shutdown() that makes a primary
\* client secondary leaves no record of the client.
C27_SecondaryOwnerOnlyByTransaction ==
  [][\A c \in AllClients :
       /\ (~SecondaryHoldsLease(c) /\ SecondaryHoldsLease(c)') =>
            \/ \E bodyOk \in BOOLEAN : RunTransactionEnd(c, bodyOk)
            \/ /\ RunTransactionBegin(c, TRUE)
               /\ result'[c] = Settled(RunTransactionCall(TRUE), "PRIMARY_LEASE_LOST")
            \/ TaskGarbageCollect(c)
       /\ (UpdateStep(c) /\ ~isPrimary[c] /\ isPrimary'[c]) =>
            primaryClient' = DbPrimaryClient(c, allowTabSynchronization[c], now)
       /\ ((UpdateStep(c) \/ ShutdownTxn(c)) /\ isPrimary[c] /\ ~isPrimary'[c]) =>
            ~isLocalClient(c, primaryClient')]_vars

\* The lease had expired under late timers when the secondary client c ran a
\* runTransaction that requires the lease: the transaction has committed, the
\* record is a valid lease of c, and isPrimary of c still is false.
C27_Witness ==
  \E c \in AllClients :
    /\ SecondaryHoldsLease(c)
    /\ started[c]
    /\ result[c] = Settled(RunTransactionCall(TRUE), "resolved")
    /\ primaryClient.leaseTimestampMs = now

\* section: the garbage collection and the client that runs it

\* C28 as stated: the garbage collection of a client leaves the metadata of
\* that client in the store and leaves the zombie entry of that client, also
\* when the unload handler of the client has written the entry and the
\* shutdown() it enqueued has not run.
C28_GCSparesItself ==
  [][\A c \in AllClients :
       TaskGarbageCollect(c) =>
         /\ clientMetadata[c] # None => clientMetadata'[c] # None
         /\ zombied[c] => zombied'[c]]_vars

\* section: a transactionOperation that fails

\* C29: a runTransaction whose transactionOperation fails changes nothing: the
\* step that starts transactionOperation leaves the PrimaryClient record, the
\* metadata, isPrimary and the queue as they are; while transactionOperation
\* runs no step but a clock tick changes the stores, and no step but the end
\* of the process of the client changes its isPrimary or enqueues a call of
\* its listener; and the step in which transactionOperation fails leaves the
\* stores, isPrimary and the queue as they are and rejects the call with the
\* error of transactionOperation.
C29_FailedBodyChangesNothing ==
  [][\A c \in AllClients :
       /\ \A requirePrimaryLease \in BOOLEAN :
            (RunTransactionBegin(c, requirePrimaryLease) /\ txn'[c] # "idle") =>
              /\ primaryClient' = primaryClient /\ clientMetadata' = clientMetadata
              /\ isPrimary' = isPrimary /\ queue' = queue
       /\ (txn[c] # "idle" /\ txn'[c] # "idle") =>
            /\ ~Tick => (primaryClient' = primaryClient /\ clientMetadata' = clientMetadata)
            /\ isPrimary'[c] = isPrimary[c]
            /\ Notifications(queue'[c]) + LostNotifications(queue'[c])
                 <= Notifications(queue[c]) + LostNotifications(queue[c])
       /\ RunTransactionEnd(c, FALSE) =>
            /\ primaryClient' = primaryClient /\ clientMetadata' = clientMetadata
            /\ isPrimary' = isPrimary /\ queue' = queue
            /\ result'[c] = Settled(result[c].call, "rejected")]_vars

\* The transactionOperation of a runTransaction of the primary client c that
\* requires the lease took a refresh interval and failed: c still is primary
\* and the lease still has the time of the write before the call.
C29_Witness ==
  \E c \in AllClients :
    /\ result[c] = Settled(RunTransactionCall(TRUE), "rejected")
    /\ txn[c] = "idle" /\ started[c]
    /\ isPrimary[c] /\ isLocalClient(c, primaryClient)
    /\ primaryClient.leaseTimestampMs < now
    /\ clientMetadata[c].updateTimeMs < now

\* section: after shutdown()

\* C30 as stated: once shutdown() of a client has completed (its transaction
\* has committed and the database is closed), no step puts the metadata of the
\* client or the PrimaryClient record of the client, and none sets isPrimary of
\* the client to true, whatever operation of the refresher, task or handler of
\* the client was running or enqueued when shutdown() was called.
C30_NoWritesAfterShutdown ==
  [][\A c \in AllClients :
       (Alive(c) /\ simpleDb[c] = "closed") =>
         /\ clientMetadata'[c] = None
         /\ (primaryClient' # primaryClient /\ primaryClient' # None) =>
              primaryClient'.ownerId # c
         /\ ~isPrimary'[c]]_vars

====
